---- MODULE Spec2Model ----
(***************************************************************************)
(* Model of the market-data acquisition layer of trading_script.py:        *)
(* download_price_data with its Yahoo -> Stooq (pandas-datareader) ->      *)
(* Stooq CSV -> index-proxy fallback chain, the frame normalisation and    *)
(* the date helpers the chain uses.                                        *)
(*                                                                         *)
(* Calendar dates are day numbers; Weekday(d) = d % 7 with 0 = Monday, as  *)
(* datetime.weekday().  A DataFrame is a record of its column labels (in   *)
(* order), the type of its index and its rows (index value + cells).       *)
(***************************************************************************)
EXTENDS Integers, Sequences, FiniteSets, TLC

\* ------------------------------------------------------------------ bounds
\* first "today" the model considers; FirstDay % 7 = 0 is a Monday
FirstDay == 14
\* number of consecutive "today" values (a whole week and one day more)
NumDays == 8
\* the largest number of rows of a provider response
MaxRows == 2
\* the largest number of elements of the "benchmarks" array
MaxEntries == 2
\* the largest number of filled orders the model follows
MaxTrades == 2
\* the number of days the ledger is followed over
MaxRunDays == 2
\* stop-loss sales in the trade logs
MaxStops == 1

\* ------------------------------------------------------- model sentinels
\* Python None for a date argument
NoDate == 0 - 1
\* the period keyword: not passed at all, or passed as None
NoPeriod == << >>
PeriodNone == << "None" >>
\* numpy.nan in a cell
NaN == 0 - 1

\* --------------------------------------------------------------- symbols
Tickers == {"AAPL", "^GSPC", "^RUT"}

STOOQ_MAP_KEYS == {"^GSPC", "^DJI", "^IXIC", "^JKSE"}

STOOQ_MAP(t) ==
    CASE t = "^GSPC" -> "^SPX"
      [] t = "^DJI"  -> "^DJI"
      [] t = "^IXIC" -> "^IXIC"
      [] t = "^JKSE" -> "^JKSE"

STOOQ_BLOCKLIST == {"^RUT"}

\* the Stooq functions asking for the ticker without looking it up
StooqAlias_none(ticker) == ticker

\* dict.get(ticker, ticker) on STOOQ_MAP
StooqAlias(ticker) == IF ticker \in STOOQ_MAP_KEYS THEN STOOQ_MAP(ticker) ELSE ticker

\* str.startswith("^") on the symbols of the model
StartsWithCaret(t) == t \in {"^GSPC", "^RUT", "^SPX", "^DJI", "^IXIC", "^JKSE"}

\* str.lower() on the symbols of the model
Lower(t) ==
    CASE t = "AAPL"  -> "aapl"
      [] t = "IWM"   -> "iwm"
      [] t = "SPY"   -> "spy"
      [] t = "^GSPC" -> "^gspc"
      [] t = "^SPX"  -> "^spx"
      [] t = "^RUT"  -> "^rut"
      [] t = "^DJI"  -> "^dji"
      [] t = "^IXIC" -> "^ixic"
      [] t = "^JKSE" -> "^jkse"
      [] OTHER       -> t

\* the symbol _stooq_download asks pandas-datareader for
StooqPdrSymbol(ticker) ==
    LET t == StooqAlias(ticker)
    IN  IF ~StartsWithCaret(t) THEN Lower(t) ELSE t

\* the symbol _stooq_csv_download puts in the URL (no model symbol ends in .us)
StooqCsvSymbol(ticker) ==
    LET t == StooqAlias(ticker)
    IN  IF ~StartsWithCaret(t) THEN Lower(t) \o ".us" ELSE Lower(t)

\* proxy_map of download_price_data
PROXY_MAP_KEYS == {"^RUT"}

proxy_map(t) == CASE t = "^RUT" -> "IWM"

HasProxy(ticker) == ticker \in PROXY_MAP_KEYS

\* the proxies the docstring of download_price_data names
DocProxy(t) ==
    CASE t = "^GSPC" -> "SPY"
      [] t = "^RUT"  -> "IWM"

\* f"yahoo:{proxy}-proxy"
ProxySource(proxy) == "yahoo:" \o proxy \o "-proxy"

\* ------------------------------------------------------------ date helpers
Weekday(d) == d % 7

\* last_trading_date stepping one day back on Sunday as on Saturday
last_trading_date_sun(today) ==
    IF Weekday(today) = 5 THEN today - 1
    ELSE IF Weekday(today) = 6 THEN today - 1
    ELSE today

\* last_trading_date: Sat -> Fri, Sun -> Fri, else the day itself
last_trading_date(today) ==
    IF Weekday(today) = 5 THEN today - 1
    ELSE IF Weekday(today) = 6 THEN today - 2
    ELSE today

\* trading_day_window
trading_day_window(today) ==
    LET d == last_trading_date(today) IN << d, d + 1 >>

\* ---------------------------------------------------------------- periods
\* A period string is the sequence of its characters.
Digits == {"0", "1", "2", "3", "4", "5", "6", "7", "8", "9"}

DigitVal(c) ==
    CASE c = "0" -> 0 [] c = "1" -> 1 [] c = "2" -> 2 [] c = "3" -> 3
      [] c = "4" -> 4 [] c = "5" -> 5 [] c = "6" -> 6 [] c = "7" -> 7
      [] c = "8" -> 8 [] c = "9" -> 9

\* period.endswith("d")
EndsWithD(p) == Len(p) > 0 /\ p[Len(p)] = "d"

\* period[:-1]
DropLast(p) == SubSeq(p, 1, Len(p) - 1)

\* int(s) on the period prefixes of the model: a non-empty string of decimal
\* digits is a number, a prefix with a letter in it is a ValueError
IntParses(s) == Len(s) > 0 /\ \A i \in 1..Len(s) : s[i] \in Digits

RECURSIVE IntOf(_)
IntOf(s) == IF Len(s) = 0 THEN 0 ELSE 10 * IntOf(DropLast(s)) + DigitVal(s[Len(s)])

\* isinstance(period, str)
IsStr(period) == period \notin {NoPeriod, PeriodNone}

\* _weekend_safe_range raises (ValueError from int) exactly when it derives
\* the window from a period that ends in "d" whose prefix is not a number
RangeRaises(period, start, end) ==
    /\ start = NoDate /\ end = NoDate
    /\ IsStr(period) /\ EndsWithD(period)
    /\ ~IntParses(DropLast(period))

\* A window is << start day, end day, start is tz-aware, end is tz-aware >>.
\* tz says which of the start and end arguments carry a timezone; a bound
\* taken from last_trading_date() is in Asia/Jakarta, and end_ts - 5 days has
\* the timezone of end_ts.

\* a window whose end always comes from the effective date
_weekend_safe_range_clock(period, start, end, tz, today) ==
    IF start # NoDate \/ end # NoDate
    THEN LET end_ts   == last_trading_date(today) + 1
             end_tz   == TRUE
             start_ts == IF start # NoDate THEN start ELSE end_ts - 5
             start_tz == IF start # NoDate THEN tz[1] ELSE end_tz
         IN  << start_ts, end_ts, start_tz, end_tz >>
    ELSE LET days == IF IsStr(period) /\ EndsWithD(period)
                     THEN IntOf(DropLast(period)) ELSE 1
             end_trading == last_trading_date(today)
         IN  << end_trading - days, end_trading + 1, TRUE, TRUE >>

\* _weekend_safe_range: the concrete [start, end) window
_weekend_safe_range(period, start, end, tz, today) ==
    IF start # NoDate \/ end # NoDate
    THEN LET end_ts   == IF end # NoDate THEN end ELSE last_trading_date(today) + 1
             end_tz   == IF end # NoDate THEN tz[2] ELSE TRUE
             start_ts == IF start # NoDate THEN start ELSE end_ts - 5
             start_tz == IF start # NoDate THEN tz[1] ELSE end_tz
         IN  << start_ts, end_ts, start_tz, end_tz >>
    ELSE LET days == IF IsStr(period) /\ EndsWithD(period)
                     THEN IntOf(DropLast(period)) ELSE 1
             end_trading == last_trading_date(today)
         IN  << end_trading - days, end_trading + 1, TRUE, TRUE >>

\* ------------------------------------------------------------------ frames
\* the five columns _normalize_ohlcv fills with NaN, in its loop order
OHLCV == << "Open", "High", "Low", "Close", "Volume" >>

\* cols of _normalize_ohlcv: the columns of every returned frame, in order
COLS == << "Open", "High", "Low", "Close", "Adj Close", "Volume" >>

\* c in df.columns
InSeq(c, s) == \E i \in 1..Len(s) : s[i] = c

SeqSet(s) == { s[i] : i \in 1..Len(s) }

\* pd.DataFrame(): no columns, no rows, a RangeIndex
EmptyFrame == [cols |-> << >>, ix |-> "range", rows |-> << >>]

\* pd.DataFrame(columns=[...]) of the last statement of download_price_data
EmptyResultFrame == [cols |-> COLS, ix |-> "range", rows |-> << >>]

\* DataFrame.empty: some axis has length 0
IsEmpty(df) == Len(df.cols) = 0 \/ Len(df.rows) = 0

\* isinstance(df, pd.DataFrame) and not df.empty
HasRows(df) == ~IsEmpty(df)

\* df[c]: the cells of column c, one per row
Column(df, c) == [i \in 1..Len(df.rows) |-> df.rows[i].v[c]]

\* np.nan broadcast to every row
NaNColumn(df) == [i \in 1..Len(df.rows) |-> NaN]

\* df[c] = vals, for a column c the frame does not have yet
AddCol(df, c, vals) ==
    [df EXCEPT !.cols = Append(df.cols, c),
               !.rows = [i \in 1..Len(df.rows) |->
                            [df.rows[i] EXCEPT !.v =
                                [k \in SeqSet(df.cols) \cup {c} |->
                                    IF k = c THEN vals[i] ELSE df.rows[i].v[k]]]]]

\* df[cols]: the listed columns in the listed order (all of them exist)
SelectCols(df, cs) ==
    [df EXCEPT !.cols = cs,
               !.rows = [i \in 1..Len(df.rows) |->
                            [df.rows[i] EXCEPT !.v = [k \in SeqSet(cs) |-> df.rows[i].v[k]]]]]

\* the loop of _normalize_ohlcv over Open, High, Low, Close, Volume
RECURSIVE EnsureCols(_, _)
EnsureCols(df, cs) ==
    IF cs = << >> THEN df
    ELSE EnsureCols(IF InSeq(Head(cs), df.cols) THEN df ELSE AddCol(df, Head(cs), NaNColumn(df)),
                    Tail(cs))

\* df.iloc[::-1]
RECURSIVE ReverseRows(_)
ReverseRows(rows) ==
    IF rows = << >> THEN << >> ELSE Append(ReverseRows(Tail(rows)), Head(rows))

\* _normalize_ohlcv that also turns the frame upside down (newest-first
\* provider order made oldest-first by reversal instead of by sorting)
_normalize_ohlcv_flip(df) ==
    LET d1 == EnsureCols(df, OHLCV)
        d2 == IF InSeq("Adj Close", d1.cols) THEN d1 ELSE AddCol(d1, "Adj Close", Column(d1, "Close"))
        d3 == SelectCols(d2, COLS)
    IN  [d3 EXCEPT !.rows = ReverseRows(d3.rows)]

\* _normalize_ohlcv with the adjusted close filled like the other missing
\* columns (NaN) instead of copied from the close
_normalize_ohlcv_nan(df) ==
    LET d1 == EnsureCols(df, OHLCV)
        d2 == IF InSeq("Adj Close", d1.cols) THEN d1 ELSE AddCol(d1, "Adj Close", NaNColumn(d1))
    IN  SelectCols(d2, COLS)

\* _normalize_ohlcv
_normalize_ohlcv(df) ==
    LET d1 == EnsureCols(df, OHLCV)
        d2 == IF InSeq("Adj Close", d1.cols) THEN d1 ELSE AddCol(d1, "Adj Close", Column(d1, "Close"))
    IN  SelectCols(d2, COLS)

\* _to_datetime_index: a non-datetime index is converted when pd.to_datetime
\* accepts it and left as it is when pd.to_datetime raises
_to_datetime_index(df) ==
    IF df.ix = "datetime" THEN df
    ELSE IF df.ix = "str" THEN [df EXCEPT !.ix = "datetime"]
    ELSE df

\* insertion of a row into rows already sorted by date, after its equals
RECURSIVE InsertRow(_, _)
InsertRow(r, rows) ==
    IF rows = << >> THEN << r >>
    ELSE IF r.date < Head(rows).date THEN << r >> \o rows
    ELSE << Head(rows) >> \o InsertRow(r, Tail(rows))

RECURSIVE SortRows(_)
SortRows(rows) ==
    IF rows = << >> THEN << >>
    ELSE InsertRow(rows[Len(rows)], SortRows(SubSeq(rows, 1, Len(rows) - 1)))

\* df.sort_index(inplace=True)
sort_index(df) == [df EXCEPT !.rows = SortRows(df.rows)]

RECURSIVE FilterRows(_, _, _)
FilterRows(rows, lo, hi) ==
    IF rows = << >> THEN << >>
    ELSE (IF Head(rows).date >= lo /\ Head(rows).date < hi THEN << Head(rows) >> ELSE << >>)
         \o FilterRows(Tail(rows), lo, hi)

\* df.loc[(df.index >= start) & (df.index < end)]
FilterWindow(df, start, end) == [df EXCEPT !.rows = FilterRows(df.rows, start, end)]

\* ------------------------------------------------------ provider responses
\* what a provider can answer: an exception ("error"), something that is not
\* a DataFrame ("nonframe"), a bad HTTP status or blank body ("http", CSV
\* endpoint only), or a frame
ColBase(c) ==
    CASE c = "Open" -> 100 [] c = "High" -> 200 [] c = "Low" -> 300
      [] c = "Close" -> 400 [] c = "Adj Close" -> 500 [] c = "Volume" -> 600

\* a frame with the given columns, index type and index values; the cell of
\* column c in the i-th row depends on c, on the date and on i
MkFrame(cols, ix, dates) ==
    [cols |-> cols, ix |-> ix,
     rows |-> [i \in 1..Len(dates) |->
                 [date |-> dates[i],
                  v |-> [c \in SeqSet(cols) |-> ColBase(c) + 3 * dates[i] + i]]]]

\* the dates a provider answers with: the first "today" and the day before
RespDates == {FirstDay - 1, FirstDay}

\* index values of a response, in the provider's order: unsorted and
\* duplicate dates included
DateSeqs == UNION { [1..n -> RespDates] : n \in 0..MaxRows }

\* yfinance column sets: auto_adjust=False, auto_adjust=True, a partial frame
YahooColSets ==
    { << "Adj Close", "Close", "High", "Low", "Open", "Volume" >>,
      << "Close", "High", "Low", "Open", "Volume" >>,
      << "Open", "High" >> }

YahooResponses ==
    { [kind |-> k, df |-> EmptyFrame] : k \in {"error", "nonframe"} }
    \cup { [kind |-> "frame", df |-> MkFrame(cs, ix, ds)] :
             cs \in YahooColSets, ix \in {"datetime", "str", "bad"}, ds \in DateSeqs }

\* pandas-datareader Stooq frames: no Adj Close; indices come without Volume
PdrColSets ==
    { << "Open", "High", "Low", "Close", "Volume" >>,
      << "Open", "High", "Low", "Close" >> }

PdrResponses ==
    { [kind |-> k, df |-> EmptyFrame] : k \in {"error", "nonframe"} }
    \cup { [kind |-> "frame", df |-> MkFrame(cs, "datetime", ds)] :
             cs \in PdrColSets, ds \in DateSeqs }

\* the parsed CSV body: its columns other than Date; ix says whether there is
\* a Date column ("range" when there is none) and whether pd.to_datetime
\* accepts it ("str") or raises ("bad")
CsvColSets ==
    { << "Open", "High", "Low", "Close", "Volume" >>,
      << "Open", "High", "Low", "Close" >>,
      << "Open", "High", "Low", "Volume" >> }

CsvFrames ==
    { MkFrame(cs, "str", ds) : cs \in CsvColSets, ds \in DateSeqs }
    \cup { MkFrame(<< "Open", "High", "Low", "Close", "Volume" >>, ix, << FirstDay - 1 >>) :
             ix \in {"bad", "range"} }

CsvResponses ==
    { [kind |-> k, df |-> EmptyFrame] : k \in {"error", "http"} }
    \cup { [kind |-> "frame", df |-> f] : f \in CsvFrames }

\* how each provider reads the end of the window it is given: yfinance
\* excludes it, the Stooq reader of pandas-datareader sends it as d2, which
\* Stooq includes, and the CSV endpoint is asked for the whole history
ProviderConvention(stage) ==
    CASE stage = "lookback"  -> "none"
      [] stage = "primary"   -> "exclusive"
      [] stage = "secondary" -> "inclusive"
      [] stage = "tertiary"  -> "none"
      [] stage = "proxy"     -> "exclusive"

\* ------------------------------------------------------- stage functions
\* _yahoo_download: an exception or a non-DataFrame becomes pd.DataFrame()
_yahoo_download(r) == IF r.kind = "frame" THEN r.df ELSE EmptyFrame

\* the early return of _stooq_download: nothing is asked of the provider
StooqPdrSkipped(ticker, hasPdr) == ~hasPdr \/ ticker \in STOOQ_BLOCKLIST

\* _stooq_download after the query: the frame sorted by index, or
\* pd.DataFrame() when the reader (or sort_index on a non-frame) raised
_stooq_download(r) == IF r.kind = "frame" THEN sort_index(r.df) ELSE EmptyFrame

\* _stooq_csv_download without its blocklist check
StooqCsvSkipped_none(ticker) == FALSE

\* the early return of _stooq_csv_download
StooqCsvSkipped(ticker) == ticker \in STOOQ_BLOCKLIST

\* the statements of _stooq_csv_download that raise, all caught by its except
\* clause: KeyError, the parse error of pd.to_datetime, and the TypeError of
\* comparing the tz-naive dates of the CSV with a tz-aware bound of the window
CsvRaises(df, w) ==
    \/ df.ix # "str"
    \/ w[3] \/ w[4]
    \/ ~InSeq("Adj Close", df.cols) /\ ~InSeq("Close", df.cols)
    \/ \E c \in SeqSet(OHLCV) : ~InSeq(c, df.cols)

\* _stooq_csv_download after the request, w the window it is given
_stooq_csv_download(r, w) ==
    IF r.kind # "frame" THEN EmptyFrame
    ELSE IF IsEmpty(r.df) THEN EmptyFrame
    ELSE IF CsvRaises(r.df, w) THEN EmptyFrame
    ELSE LET d1 == FilterWindow(sort_index([r.df EXCEPT !.ix = "datetime"]), w[1], w[2])
             d2 == IF InSeq("Adj Close", d1.cols) THEN d1 ELSE AddCol(d1, "Adj Close", Column(d1, "Close"))
         IN  SelectCols(d2, COLS)

\* how a stage call ended: with rows, with a well-formed answer without rows,
\* or with a caught transport / decode error
Outcome(failed, df) ==
    IF HasRows(df) THEN "rows" ELSE IF failed THEN "error" ELSE "empty"

\* the proxy stage returning under the plain Yahoo tag
StageSource_plain(stage, ticker) ==
    CASE stage = "lookback"  -> "yahoo"
      [] stage = "primary"   -> "yahoo"
      [] stage = "secondary" -> "stooq-pdr"
      [] stage = "tertiary"  -> "stooq-csv"
      [] stage = "proxy"     -> "yahoo"

\* the return statements of download_price_data: the source tag of a stage
StageSource(stage, ticker) ==
    CASE stage = "lookback"  -> "yahoo"
      [] stage = "primary"   -> "yahoo"
      [] stage = "secondary" -> "stooq-pdr"
      [] stage = "tertiary"  -> "stooq-csv"
      [] stage = "proxy"     -> ProxySource(proxy_map(ticker))

\* FetchResult(_normalize_ohlcv(_to_datetime_index(df)), source)
FetchResult(df, source) ==
    [source |-> source, df |-> _normalize_ohlcv(_to_datetime_index(df))]

\* the last return statement with the tag of the first one
EmptyResult_yahoo == [source |-> "yahoo", df |-> EmptyResultFrame]

\* FetchResult(empty, "empty")
EmptyResult == [source |-> "empty", df |-> EmptyResultFrame]

\* the value of result while no call has returned
NoResult == [source |-> "none", df |-> EmptyFrame]

\* the `if ... and not df.empty: return` of each stage
LookbackReturns(df) == HasRows(df)

\* stage 1 with the emptiness test inverted
PrimaryReturns_inverted(df) == IsEmpty(df)

PrimaryReturns(df) == HasRows(df)

\* stage 2 returning whatever it got, without the emptiness test
SecondaryReturns_always(df) == TRUE

SecondaryReturns(df) == HasRows(df)

TertiaryReturns(df) == HasRows(df)

ProxyReturns(df) == HasRows(df)

\* the period shortcut never taken
UsesLookback_never(period) == FALSE

\* `if "period" in kwargs`
UsesLookback(period) == period # NoPeriod

\* ------------------------------------------------------------ tickers.json
\* DEFAULT_BENCHMARKS
DEFAULT_BENCHMARKS == << "^JKSE" >>

\* str.strip() on the entry strings of the model
Strip(s) ==
    CASE s = " spy " -> "spy"
      [] s = "  " -> ""
      [] OTHER -> s

\* str.upper() on the entry strings of the model
Upper(s) ==
    CASE s = "spy" -> "SPY"
      [] s = "iwm" -> "IWM"
      [] s = "aapl" -> "AAPL"
      [] s = "msft" -> "MSFT"
      [] OTHER -> s

\* an element of a JSON array: a string, or something else (a number, null)
EntryStrings == {"SPY", " spy ", "iwm", "  "}
Entries == [str : {TRUE}, s : EntryStrings] \cup {[str |-> FALSE, s |-> "7"]}

EntryLists == UNION { [1..n -> Entries] : n \in 0..MaxEntries }

\* the value under the key "benchmarks" of a JSON object ("absent": no such key)
NoBench == [kind |-> "absent", items |-> << >>]

BenchValues ==
    { [kind |-> k, items |-> << >>] : k \in {"null", "string", "number", "object"} }
    \cup { [kind |-> "list", items |-> l] : l \in EntryLists }

\* what a tickers.json path holds: no file, a file that is not JSON, a file
\* that cannot be read, or a JSON document; falsy is Python's `not value`
NoFile == [kind |-> "missing", falsy |-> TRUE, bench |-> NoBench]

JsonNull == [kind |-> "null", falsy |-> TRUE, bench |-> NoBench]

JsonFiles ==
    { [kind |-> k, falsy |-> TRUE, bench |-> NoBench] :
        k \in {"missing", "malformed", "unreadable", "null"} }
    \cup { [kind |-> k, falsy |-> f, bench |-> NoBench] :
             k \in {"number", "string", "list"}, f \in BOOLEAN }
    \cup { [kind |-> "object", falsy |-> TRUE, bench |-> NoBench],
           [kind |-> "object", falsy |-> FALSE, bench |-> NoBench] }
    \cup { [kind |-> "object", falsy |-> FALSE, bench |-> b] : b \in BenchValues }

\* tickers.json of the parent directory, the second candidate
ParentFiles ==
    { NoFile,
      [kind |-> "list", falsy |-> FALSE, bench |-> NoBench],
      [kind |-> "object", falsy |-> FALSE,
       bench |-> [kind |-> "list", items |-> << [str |-> TRUE, s |-> "iwm"] >>]] }

\* _read_json_file(path): json.load's value, None when the file is missing,
\* malformed or unreadable
_read_json_file(f) ==
    IF f.kind \in {"missing", "malformed", "unreadable"} THEN JsonNull ELSE f

\* the candidates loop: the first candidate whose data is not None
FirstConfig(files) ==
    IF _read_json_file(files[1]) # JsonNull THEN _read_json_file(files[1])
    ELSE _read_json_file(files[2])

\* the loop over cfg["benchmarks"]
RECURSIVE NormalizeEntries(_, _)
NormalizeEntries(items, acc) ==
    IF items = << >> THEN acc
    ELSE LET t == Head(items)
             up == Upper(Strip(t.s))
         IN  IF ~t.str \/ up = "" \/ InSeq(up, acc)
             THEN NormalizeEntries(Tail(items), acc)
             ELSE NormalizeEntries(Tail(items), Append(acc, up))

\* what a call returns: the list, or the exception that left the function
Returned(l) == [raised |-> "", list |-> l]
Raised(e) == [raised |-> e, list |-> << >>]
NotLoaded == [raised |-> "", list |-> << >>]

\* load_benchmarks(): files = << tickers.json of base, of base.parent >>
load_benchmarks(files) ==
    LET cfg == FirstConfig(files)
    IN  IF cfg.falsy THEN Returned(DEFAULT_BENCHMARKS)
        ELSE IF cfg.kind # "object" THEN Raised("AttributeError")
        ELSE IF cfg.bench.kind # "list" THEN Returned(DEFAULT_BENCHMARKS)
        ELSE LET res == NormalizeEntries(cfg.bench.items, << >>)
             IN  Returned(IF res # << >> THEN res ELSE DEFAULT_BENCHMARKS)

\* ------------------------------------------------------------------ numbers
\* A float of the ledger (shares, prices, cash) is the exact rational it
\* stands for, n / d in lowest terms with d > 0.  The prices, sizes and cash
\* of the model are binary fractions of a few bits, on which the float
\* operations of the script are exact (see ExactFloats): the sum, difference
\* and product of two of them is the rational sum, difference and product,
\* a quotient is the rational quotient whenever that is a binary fraction,
\* and round(x, 2) rounds the value x itself.
RECURSIVE GCD(_, _)
GCD(a, b) == IF b = 0 THEN a ELSE GCD(b, a % b)

Abs(x) == IF x < 0 THEN 0 - x ELSE x

Q(n, d) == LET g == GCD(Abs(n), d) IN [n |-> n \div g, d |-> d \div g]

Zero == Q(0, 1)

Add(a, b) == Q(a.n * b.d + b.n * a.d, a.d * b.d)
Sub(a, b) == Q(a.n * b.d - b.n * a.d, a.d * b.d)
Mul(a, b) == Q(a.n * b.n, a.d * b.d)
\* a / b for b > 0
Div(a, b) == Q(a.n * b.d, a.d * b.n)
\* a comparison that always holds
Leq_always(a, b) == TRUE

\* a <= b
Leq(a, b) == a.n * b.d <= b.n * a.d
\* a comparison that never holds
Less_never(a, b) == FALSE

\* a < b
Less(a, b) == a.n * b.d < b.n * a.d

\* int(x): truncation towards zero
int(a) == IF a.n >= 0 THEN Q(a.n \div a.d, 1) ELSE Q(0 - ((0 - a.n) \div a.d), 1)

\* round(x, 2): to the nearest hundredth, a tie to the even one
round2(a) ==
    LET s == 100 * a.n
        q == s \div a.d
        r == s % a.d
    IN  IF 2 * r < a.d THEN Q(q, 100)
        ELSE IF 2 * r > a.d THEN Q(q + 1, 100)
        ELSE Q(IF q % 2 = 0 THEN q ELSE q + 1, 100)

\* an empty cell of a CSV row ("")
Blank == [n |-> 0, d |-> 0]

\* ------------------------------------------------------- the session's bar
\* OHLCV of one session as a provider quotes it
Bar(o, h, l, c) ==
    [Open |-> o, High |-> h, Low |-> l, Close |-> c, Volume |-> Q(1000, 1)]

\* Prices are whole multiples of 15, so that the average prices of the
\* merged buys below are binary fractions (see ExactFloats).  A session that
\* opens at 150.001953125 (150 + 1/512, not a whole number of cents) and
\* trades between 142.5 and 180, one that opens at 120 and trades between
\* 105 and 135, and one that opens at 150.001953125 and trades between 127.5
\* and 180
Steady == Bar(Q(76801, 512), Q(180, 1), Q(285, 2), Q(165, 1))
Slump == Bar(Q(120, 1), Q(135, 1), Q(105, 1), Q(120, 1))
Dip == Bar(Q(76801, 512), Q(180, 1), Q(255, 2), Q(165, 1))

\* a provider frame with the sessions given, the last one on day d
BarFrame(bars, d) ==
    [cols |-> OHLCV, ix |-> "datetime",
     rows |-> [i \in 1..Len(bars) |-> [date |-> d - (Len(bars) - i), v |-> bars[i]]]]

\* the source tags download_price_data gives
Sources == {"yahoo", "stooq-pdr", "stooq-csv", "yahoo:IWM-proxy", "empty"}

\* what download_price_data(ticker, period="1d") may hand a ledger function
\* on day d: the session of d from Yahoo, the session before it and the
\* session of d from the Stooq reader of pandas-datareader (asked for
\* d - 1 .. d + 1 after the Yahoo queries came back empty), or nothing; the
\* CSV stage never answers a window derived from a period
Fetches(d) ==
    { FetchResult(BarFrame(<< Steady >>, d), "yahoo"),
      FetchResult(BarFrame(<< Slump >>, d), "yahoo"),
      FetchResult(_stooq_download([kind |-> "frame", df |-> BarFrame(<< Slump, Dip >>, d)]),
                  "stooq-pdr"),
      EmptyResult }

\* no data, judged by the tag as well
NoData_tag(fetch) == IsEmpty(fetch.df) \/ fetch.source = "empty"

\* data = fetch.df; if data.empty
NoData(fetch) == IsEmpty(fetch.df)

\* data[col].iloc[-1].item()
ILast(df, c) == df.rows[Len(df.rows)].v[c]

\* --------------------------------------------------------------- portfolio
\* The portfolio DataFrame: whether it has its columns (pd.DataFrame([]) has
\* none) and its rows [ticker, shares, stop_loss, buy_price, cost_basis].
NoColumns == [cols |-> FALSE, rows |-> << >>]

\* pd.DataFrame(columns=["ticker", "shares", "stop_loss", "buy_price", "cost_basis"])
NoPositions == [cols |-> TRUE, rows |-> << >>]

\* _ensure_df(portfolio) of the list of records load_latest_portfolio_state gives
_ensure_df(records) == [cols |-> records # << >>, rows |-> records]

\* what the ledger functions work on and hand back: ledger.crash is the
\* exception that ended the process, ledger.console the message printed and
\* the source tag it shows ("" if it shows none)
Ledger(p, c, t) == [portfolio |-> p, cash |-> c, tradeLog |-> t, crash |-> "", console |-> << "", "" >>]

Printed(L, msg, src) == [L EXCEPT !.console = << msg, src >>]

Crashed(L, e) == [L EXCEPT !.crash = e, !.console = << e, "" >>]

\* a row of chatgpt_trade_log.csv
BuyLog(date, ticker, shares, price, cost, reason) ==
    [Date |-> date, Ticker |-> ticker, Shares_Bought |-> shares, Buy_Price |-> price,
     Cost_Basis |-> cost, PnL |-> Zero, Reason |-> reason,
     Shares_Sold |-> Blank, Sell_Price |-> Blank]

SellLog(date, ticker, shares, price, cost, pnl, reason) ==
    [Date |-> date, Ticker |-> ticker, Shares_Bought |-> Blank, Buy_Price |-> Blank,
     Cost_Basis |-> cost, PnL |-> pnl, Reason |-> reason,
     Shares_Sold |-> shares, Sell_Price |-> price]

\* indices of the rows whose ticker, upper-cased, is the ticker upper-cased
RowsUpper(rows, ticker) == { i \in 1..Len(rows) : Upper(rows[i].ticker) = Upper(ticker) }

\* indices of the rows whose ticker is exactly the ticker
RowsExact(rows, ticker) == { i \in 1..Len(rows) : rows[i].ticker = ticker }

Min(S) == CHOOSE x \in S : \A y \in S : x <= y

\* portfolio[portfolio["ticker"] != ticker]
RECURSIVE DropTicker(_, _)
DropTicker(rows, ticker) ==
    IF rows = << >> THEN << >>
    ELSE IF Head(rows).ticker = ticker THEN DropTicker(Tail(rows), ticker)
    ELSE << Head(rows) >> \o DropTicker(Tail(rows), ticker)

\* a filled buy that always adds a row
Bought_append(rows, ticker, shares, stop_loss, exec_price, cost) ==
    Append(rows, [ticker |-> ticker, shares |-> shares, stop_loss |-> stop_loss,
                  buy_price |-> exec_price, cost_basis |-> cost])

\* the portfolio update of a filled buy: a new row, or the first matching row
\* with the shares and the cost added, the average price and the new stop
Bought(rows, ticker, shares, stop_loss, exec_price, cost) ==
    IF RowsUpper(rows, ticker) = {}
    THEN Append(rows, [ticker |-> ticker, shares |-> shares, stop_loss |-> stop_loss,
                       buy_price |-> exec_price, cost_basis |-> cost])
    ELSE LET idx == Min(RowsUpper(rows, ticker))
             new_shares == Add(rows[idx].shares, shares)
             new_cost == Add(rows[idx].cost_basis, cost)
         IN  [rows EXCEPT ![idx] =
                [@ EXCEPT !.shares = new_shares,
                          !.cost_basis = new_cost,
                          !.buy_price = IF new_shares # Zero THEN Div(new_cost, new_shares) ELSE Zero,
                          !.stop_loss = stop_loss]]

\* process_portfolio, the market-on-open branch of the trade loop
MooBuy(L, today_iso, ticker, shares, stop_loss, fetch) ==
    LET data == fetch.df
        o == ILast(data, "Open")
        exec_price == round2(o)
        notional == Mul(exec_price, shares)
        log == BuyLog(today_iso, ticker, shares, exec_price, notional, "MANUAL BUY MOO - Filled")
    IN  IF NoData(fetch)
        THEN Printed(L, "MOO buy failed: no market data available", fetch.source)
        ELSE IF Less(L.cash, notional)
        THEN Printed(L, "MOO buy failed: cost exceeds cash", "")
        ELSE IF ~L.portfolio.cols
        THEN Crashed([L EXCEPT !.tradeLog = Append(@, log)], "KeyError")
        ELSE [portfolio |-> [cols |-> TRUE,
                             rows |-> Bought(L.portfolio.rows, ticker, shares, stop_loss,
                                             exec_price, notional)],
              cash |-> Sub(L.cash, notional),
              tradeLog |-> Append(L.tradeLog, log),
              crash |-> "",
              console |-> << "Manual BUY MOO filled", fetch.source >>]

\* log_manual_buy(buy_price, shares, ticker, stoploss, cash, chatgpt_portfolio)
log_manual_buy(L, today, buy_price, shares, ticker, stoploss, check, fetch) ==
    LET P == IF L.portfolio.rows = << >> THEN [L EXCEPT !.portfolio = NoPositions] ELSE L
        data == fetch.df
        o == ILast(data, "Open")
        l == ILast(data, "Low")
        filled == Leq(o, buy_price) \/ Leq(l, buy_price)
        exec_price == IF Leq(o, buy_price) THEN o ELSE buy_price
        cost_amt == Mul(exec_price, shares)
        log == BuyLog(today, ticker, shares, exec_price, cost_amt, "MANUAL BUY LIMIT - Filled")
    IN  IF check = "1" THEN Printed(L, "Returning...", "")
        ELSE IF NoData(fetch)
        THEN Printed(P, "Manual buy failed: no market data available", fetch.source)
        ELSE IF ~filled
        THEN Printed(P, "Buy limit not reached today. Order not filled.", "")
        ELSE IF Less(P.cash, cost_amt)
        THEN Printed(P, "Manual buy failed: cost exceeds cash balance", "")
        ELSE [portfolio |-> [cols |-> TRUE,
                             rows |-> Bought(P.portfolio.rows, ticker, shares, stoploss,
                                             exec_price, cost_amt)],
              cash |-> Sub(P.cash, cost_amt),
              tradeLog |-> Append(P.tradeLog, log),
              crash |-> "",
              console |-> << "Manual BUY LIMIT filled", fetch.source >>]

\* log_manual_sell(sell_price, shares_sold, ticker, cash, chatgpt_portfolio)
log_manual_sell(L, today, sell_price, shares_sold, ticker, reason, fetch) ==
    LET rows == L.portfolio.rows
        held == RowsExact(rows, ticker)
        row_index == Min(held)
        total_shares == int(rows[row_index].shares)
        data == fetch.df
        o == ILast(data, "Open")
        h == ILast(data, "High")
        filled == Leq(sell_price, o) \/ Leq(sell_price, h)
        exec_price == IF Leq(sell_price, o) THEN o ELSE sell_price
        buy_price == rows[row_index].buy_price
        cost_basis == Mul(buy_price, shares_sold)
        pnl == Sub(Mul(exec_price, shares_sold), cost_basis)
        log == SellLog(today, ticker, shares_sold, exec_price, cost_basis, pnl,
                       "MANUAL SELL LIMIT - " \o reason)
        left == Sub(total_shares, shares_sold)
    IN  IF reason = "1" THEN Printed(L, "Returning...", "")
        ELSE IF ~L.portfolio.cols THEN Crashed(L, "KeyError")
        ELSE IF held = {}
        THEN Printed(L, "Manual sell failed: ticker not in portfolio.", "")
        ELSE IF Cardinality(held) > 1 THEN Crashed(L, "ValueError")
        ELSE IF Less(total_shares, shares_sold)
        THEN Printed(L, "Manual sell failed: trying to sell more shares than owned", "")
        ELSE IF NoData(fetch)
        THEN Printed(L, "Manual sell failed: no market data available", fetch.source)
        ELSE IF ~filled
        THEN Printed(L, "Sell limit not reached today. Order not filled.", "")
        ELSE [portfolio |-> [cols |-> TRUE,
                             rows |-> IF total_shares = shares_sold
                                      THEN DropTicker(rows, ticker)
                                      ELSE [rows EXCEPT ![row_index] =
                                              [@ EXCEPT !.shares = left,
                                                        !.cost_basis = Mul(left, buy_price)]]],
              cash |-> Add(L.cash, Mul(shares_sold, exec_price)),
              tradeLog |-> Append(L.tradeLog, log),
              crash |-> "",
              console |-> << "Manual SELL LIMIT filled", fetch.source >>]

\* ------------------------------------------------ chatgpt_portfolio_update.csv
\* a row of the portfolio CSV
CsvRow(date, ticker, shares, cost, cost_basis, stop, price, value, pnl, action) ==
    [Date |-> date, Ticker |-> ticker, Shares |-> shares, Buy_Price |-> cost,
     Cost_Basis |-> cost_basis, Stop_Loss |-> stop, Current_Price |-> price,
     Total_Value |-> value, PnL |-> pnl, Action |-> action,
     Cash_Balance |-> Blank, Total_Equity |-> Blank]

TotalRow(date, total_value, total_pnl, cash) ==
    [Date |-> date, Ticker |-> "TOTAL", Shares |-> Blank, Buy_Price |-> Blank,
     Cost_Basis |-> Blank, Stop_Loss |-> Blank, Current_Price |-> Blank,
     Total_Value |-> round2(total_value), PnL |-> round2(total_pnl), Action |-> "",
     Cash_Balance |-> round2(cash), Total_Equity |-> round2(Add(total_value, cash))]

\* log_sell(ticker, shares, price, cost, pnl, portfolio)
log_sell(L, today, ticker, shares, price, cost, pnl) ==
    [L EXCEPT !.portfolio.rows = DropTicker(@, ticker),
              !.tradeLog = Append(@, SellLog(today, ticker, shares, price, cost, pnl,
                                             "AUTOMATED SELL - STOPLOSS TRIGGERED")),
              !.console = << "stop loss was met. Selling all shares.", "" >>]

\* one pass of the pricing loop, for the row `stock` and the fetch it got;
\* acc = [L, results, total_value, total_pnl]
PriceOne(acc, today_iso, stock, fetch) ==
    LET ticker == Upper(stock.ticker)
        shares == int(stock.shares)
        cost == stock.buy_price
        cost_basis == stock.cost_basis
        stop == stock.stop_loss
        data == fetch.df
        o == ILast(data, "Open")
        l == ILast(data, "Low")
        c == ILast(data, "Close")
        sold == stop # Zero /\ Leq(l, stop)
        exec_price == round2(IF Leq(o, stop) THEN o ELSE stop)
        price == IF sold THEN exec_price ELSE round2(c)
        value == round2(Mul(price, shares))
        pnl == round2(Mul(Sub(price, cost), shares))
    IN  IF NoData(fetch)
        THEN [acc EXCEPT !.L = Printed(@, "No data", fetch.source),
                         !.results = Append(@, CsvRow(today_iso, ticker, shares, cost, cost_basis,
                                                      stop, Blank, Blank, Blank, "NO DATA"))]
        ELSE IF sold
        THEN [acc EXCEPT !.L = log_sell([acc.L EXCEPT !.cash = Add(acc.L.cash, value)],
                                        today_iso, ticker, shares, exec_price, cost, pnl),
                         !.results = Append(@, CsvRow(today_iso, ticker, shares, cost, cost_basis,
                                                      stop, price, value, pnl,
                                                      "SELL - Stop Loss Triggered"))]
        ELSE [acc EXCEPT !.results = Append(@, CsvRow(today_iso, ticker, shares, cost, cost_basis,
                                                      stop, price, value, pnl, "HOLD")),
                         !.total_value = Add(@, value),
                         !.total_pnl = Add(@, pnl)]

\* the pricing loop over the rows the portfolio had when the loop began
RECURSIVE PriceLoop(_, _, _, _, _)
PriceLoop(acc, today_iso, stocks, fetches, i) ==
    IF i > Len(stocks) THEN acc
    ELSE PriceLoop(PriceOne(acc, today_iso, stocks[i], fetches[i]), today_iso, stocks, fetches, i + 1)

\* existing[existing["Date"] != today_iso]
RECURSIVE OtherDays(_, _)
OtherDays(csvrows, today_iso) ==
    IF csvrows = << >> THEN << >>
    ELSE IF Head(csvrows).Date = today_iso THEN OtherDays(Tail(csvrows), today_iso)
    ELSE << Head(csvrows) >> \o OtherDays(Tail(csvrows), today_iso)

\* what a chatgpt_portfolio_update.csv path holds: no file, or a file with
\* the header line and rows (no rows: the file somebody created to start
\* with).  A file of no bytes at all, on which pd.read_csv raises
\* EmptyDataError, is not among the files of the model.
NoCsv == [exists |-> FALSE, rows |-> << >>]

\* df_out.to_csv(PORTFOLIO_CSV, index=False)
to_csv(csvrows) == [exists |-> TRUE, rows |-> csvrows]

\* process_portfolio after the trade loop: pricing, the TOTAL row, the CSV;
\* gives the ledger returned and the CSV written (file is what PORTFOLIO_CSV
\* holds before)
Priced(L, file, today_iso, fetches) ==
    LET acc == PriceLoop([L |-> L, results |-> << >>, total_value |-> Zero, total_pnl |-> Zero],
                         today_iso, L.portfolio.rows, fetches, 1)
        total_row == TotalRow(today_iso, acc.total_value, acc.total_pnl, acc.L.cash)
        df_out == Append(acc.results, total_row)
    IN  [L |-> acc.L,
         csv |-> IF file.exists
                 THEN to_csv(OtherDays(file.rows, today_iso) \o df_out)
                 ELSE to_csv(df_out)]

\* Action.startswith("SELL")
IsSell(action) == action = "SELL - Stop Loss Triggered"

RECURSIVE Select(_, _)
Select(s, keep) ==
    IF s = << >> THEN << >>
    ELSE IF Head(s) \in keep THEN << Head(s) >> \o Select(Tail(s), keep)
    ELSE Select(Tail(s), keep)

\* the row of the TOTAL rows that sort_values("Date").iloc[-1] picks
LatestTotal(csvrows) ==
    LET totals == { i \in 1..Len(csvrows) : csvrows[i].Ticker = "TOTAL" }
    IN  csvrows[CHOOSE i \in totals :
                  \A k \in totals : csvrows[k].Date < csvrows[i].Date
                                    \/ (csvrows[k].Date = csvrows[i].Date /\ k <= i)]

\* load_latest_portfolio_state(file), with the _ensure_df that process_portfolio
\* applies to its list of records; file is what the path holds, input is the
\* starting cash typed when the CSV has no rows
load_latest_portfolio_state(file, input) ==
    IF ~file.exists
    THEN [portfolio |-> NoColumns, cash |-> Zero, crash |-> "FileNotFoundError"]
    ELSE IF file.rows = << >>
    THEN [portfolio |-> NoPositions, cash |-> input, crash |-> ""]
    ELSE LET csvrows == file.rows
             non_total == { csvrows[i] : i \in { k \in 1..Len(csvrows) : csvrows[k].Ticker # "TOTAL" } }
             latest_date == IF non_total = {} THEN NoDate
                            ELSE CHOOSE d \in { r.Date : r \in non_total } :
                                   \A r \in non_total : r.Date <= d
             latest_tickers == Select(csvrows, { r \in non_total :
                                                   r.Date = latest_date /\ ~IsSell(r.Action) })
             records == [i \in 1..Len(latest_tickers) |->
                           [ticker |-> latest_tickers[i].Ticker,
                            shares |-> latest_tickers[i].Shares,
                            stop_loss |-> latest_tickers[i].Stop_Loss,
                            buy_price |-> latest_tickers[i].Buy_Price,
                            cost_basis |-> latest_tickers[i].Cost_Basis]]
         IN  IF \A i \in 1..Len(csvrows) : csvrows[i].Ticker # "TOTAL"
             THEN [portfolio |-> _ensure_df(records), cash |-> Zero, crash |-> "IndexError"]
             ELSE [portfolio |-> _ensure_df(records),
                   cash |-> LatestTotal(csvrows).Cash_Balance, crash |-> ""]

\* ---------------------------------------------------------------- the files
\* SCRIPT_DIR, and a second directory that may be given as --data-dir
SCRIPT_DIR == "script"
DataDirs == {SCRIPT_DIR, "data"}

\* data_dir=None
NoDir == ""

\* set_data_dir(data_dir): the three globals it binds
set_data_dir(data_dir) ==
    [DATA_DIR |-> data_dir,
     PORTFOLIO_CSV |-> data_dir \o "/chatgpt_portfolio_update.csv",
     TRADE_LOG_CSV |-> data_dir \o "/chatgpt_trade_log.csv"]

\* the globals of a process after import: the files alongside the script
ModulePaths ==
    [DATA_DIR |-> SCRIPT_DIR,
     PORTFOLIO_CSV |-> SCRIPT_DIR \o "/chatgpt_portfolio_update.csv",
     TRADE_LOG_CSV |-> SCRIPT_DIR \o "/chatgpt_trade_log.csv"]

\* the portfolio CSVs main() may be given as --file, and the trade logs
PortfolioFiles == { set_data_dir(d).PORTFOLIO_CSV : d \in DataDirs }
TradeLogFiles == { set_data_dir(d).TRADE_LOG_CSV : d \in DataDirs }

\* no portfolio CSV anywhere
NoFiles == [f \in PortfolioFiles |-> NoCsv]

\* somebody created the CSV alongside the script: the header line, no rows
Created == [NoFiles EXCEPT ![ModulePaths.PORTFOLIO_CSV] = to_csv(<< >>)]

\* the step main() took last, as somebody watching the terminal notes it: the
\* prompt branch, what the user typed, what download_price_data returned to
\* it (one fetch per portfolio row for the pricing loop) and what was printed
Step(op, ticker, shares, price, stop_loss, word, fetches, console) ==
    [op |-> op, ticker |-> ticker, shares |-> shares, price |-> price,
     stop_loss |-> stop_loss, word |-> word, fetches |-> fetches, console |-> console]

NoStep == Step("", "", Zero, Zero, Zero, "", << >>, << "", "" >>)

\* nobody is watching
Unwatched == [NoStep EXCEPT !.op = "off"]

\* ------------------------------------------------------------------- state
VARIABLES
    pc,       \* position of the caller in download_price_data
    today,    \* _effective_now(): ASOF_DATE, or the clock when it is None
    hasPdr,   \* _HAS_PDR
    ticker,   \* arguments of the running call
    period,
    start,
    end,
    tz,       \* << start is tz-aware, end is tz-aware >> of the arguments
    win,      \* s, e of download_price_data
    log,      \* the provider queries of the running call, in order
    raw,      \* the provider's answer that the returning stage got
    got,      \* the frame the returning stage function handed back
    result,   \* the FetchResult returned
    exc,      \* the exception that left download_price_data, "" if none
    tickersJson,  \* << tickers.json of SCRIPT_DIR, tickers.json of its parent >>
    benchmarks,   \* what load_benchmarks() gave the running process
    rec,          \* the call whose repetition is being compared, see Armed
    run,          \* where main() is: "off" (no process) or "trades" (the trade loop)
    paths,        \* DATA_DIR, PORTFOLIO_CSV and TRADE_LOG_CSV of the process
    ledger,       \* portfolio and cash of main(), TRADE_LOG_CSV as it reads it, the console
    csv,          \* what each chatgpt_portfolio_update.csv path holds
    trade_log,    \* the rows of each chatgpt_trade_log.csv, by path (none:
                  \* no file, the script writes no trade log without a row)
    last          \* the step main() took last: what was typed, what was fetched

\* the state of a download_price_data call
callVars == << pc, ticker, period, start, end, tz, win, log, raw, got, result, exc >>

\* the state outside download_price_data
others == << tickersJson, benchmarks, run, paths, ledger, csv, trade_log, last >>

vars == << pc, today, hasPdr, ticker, period, start, end, tz, win, log, raw, got, result, exc,
           others, rec >>

Days == FirstDay .. (FirstDay + NumDays - 1)

\* period strings of the callers and of yfinance
P1d == << "1", "d" >>
P5d == << "5", "d" >>
Pytd == << "y", "t", "d" >>
P1mo == << "1", "m", "o" >>

Periods == {P1d, P5d, Pytd, P1mo}

\* explicit window bounds a caller passes
StartArg == FirstDay - 2
EndArg == FirstDay

\* s, e while _weekend_safe_range has not returned
NoWindow == << NoDate, NoDate, FALSE, FALSE >>

\* no bound is tz-aware: date strings, tz-naive timestamps, None
NoTz == << FALSE, FALSE >>

\* the keyword arguments of a call: a period (None included), an explicit
\* window (either bound may be missing, a bound passed may be tz-aware as in
\* daily_results), nothing at all, or a period together with a window
CallArgs ==
    { << p, NoDate, NoDate, NoTz >> : p \in Periods \cup {NoPeriod, PeriodNone} }
    \cup { x \in { << NoPeriod, a, b, << sa, ea >> >> :
                       a \in {NoDate, StartArg}, b \in {NoDate, EndArg},
                       sa \in BOOLEAN, ea \in BOOLEAN } :
              (x[2] = NoDate => ~x[4][1]) /\ (x[3] = NoDate => ~x[4][2]) }
    \cup { << p, StartArg, EndArg, NoTz >> : p \in {P1d, PeriodNone} }

\* the stages that ask a provider
Stages == {"lookback", "primary", "secondary", "tertiary", "proxy"}

NoAnswer == [kind |-> "none", df |-> EmptyFrame]

\* A repetition experiment: a first call is recorded with its arguments, the
\* effective date it ran under, every provider answer it got, the queries it
\* made and what it returned; a second call with the same arguments is then given the same
\* answers.  phase "off": nothing is recorded.
NoRec == [phase |-> "off", ticker |-> "", args |-> << NoPeriod, NoDate, NoDate, NoTz >>,
          today |-> NoDate, answers |-> [st \in Stages |-> NoAnswer],
          log |-> << >>, result |-> NoResult, exc |-> ""]

Armed == [NoRec EXCEPT !.phase = "armed"]

\* the answers offered in a repetition experiment: an error, or a frame with
\* the provider's full column set and well-formed dates
Replayable(stage, r) ==
    \/ r.kind = "error"
    \/ /\ r.kind = "frame"
       /\ r.df.ix = (IF stage = "tertiary" THEN "str" ELSE "datetime")
       /\ Len(r.df.cols) = 5

\* what a provider may answer at a stage
Offered(stage, responses) ==
    CASE rec.phase = "off" -> responses
      [] rec.phase = "second" /\ rec.answers[stage] # NoAnswer -> {rec.answers[stage]}
      [] OTHER -> { r \in responses : Replayable(stage, r) }

\* the state after module import
Boot ==
    /\ pc = "idle"
    /\ today \in Days
    /\ hasPdr \in BOOLEAN
    /\ ticker = "" /\ period = NoPeriod /\ start = NoDate /\ end = NoDate
    /\ tz = NoTz
    /\ win = NoWindow
    /\ log = << >>
    /\ raw = EmptyFrame /\ got = EmptyFrame
    /\ result = NoResult
    /\ exc = ""
    /\ tickersJson = << NoFile, NoFile >>
    /\ benchmarks = NotLoaded
    /\ run = "off"
    /\ ledger = Ledger(NoColumns, Zero, << >>)
    /\ paths = ModulePaths
    /\ trade_log = [f \in TradeLogFiles |-> << >>]

Init == Boot /\ csv = NoFiles /\ rec = NoRec /\ last = Unwatched

\* set_asof(date)
set_asof(d) ==
    /\ pc = "idle"
    /\ today' = d
    /\ UNCHANGED << pc, hasPdr, ticker, period, start, end, tz, win, log, raw, got, result, exc >>
    /\ UNCHANGED << others, rec >>

\* download_price_data(ticker, **kwargs) is entered
Call(t, a) ==
    /\ pc = "idle"
    /\ ticker' = t /\ period' = a[1] /\ start' = a[2] /\ end' = a[3] /\ tz' = a[4]
    /\ pc' = IF UsesLookback(a[1]) THEN "lookback" ELSE "range"
    /\ CASE rec.phase = "armed" ->
              rec' = [rec EXCEPT !.phase = "first", !.ticker = t, !.args = a, !.today = today]
         [] rec.phase = "between" ->
              t = rec.ticker /\ a = rec.args /\ rec' = [rec EXCEPT !.phase = "second"]
         [] OTHER -> UNCHANGED rec
    /\ UNCHANGED << today, hasPdr, win, log, raw, got, result, exc >>
    /\ UNCHANGED others

\* one provider query and the `if not empty: return` that follows it
Query(stage, symbol, qperiod, qstart, qend, r, df, failed, returns, nextpc, otherwise) ==
    /\ log' = Append(log, [stage |-> stage, symbol |-> symbol, period |-> qperiod,
                           start |-> qstart, end |-> qend, outcome |-> Outcome(failed, df)])
    /\ rec' = IF rec.phase = "first" THEN [rec EXCEPT !.answers[stage] = r] ELSE rec
    /\ IF returns
       THEN /\ result' = FetchResult(df, StageSource(stage, ticker))
            /\ raw' = r.df /\ got' = df
            /\ pc' = "done"
       ELSE /\ pc' = nextpc
            /\ result' = otherwise
            /\ UNCHANGED << raw, got >>

\* lines 330-333: Yahoo with the kwargs as passed (period, and start/end if any)
Lookback ==
    /\ pc = "lookback"
    /\ \E r \in Offered("lookback", YahooResponses) :
         LET df == _yahoo_download(r)
         IN  Query("lookback", ticker, period, start, end, r, df,
                   r.kind # "frame", LookbackReturns(df), "range", result)
    /\ UNCHANGED << today, hasPdr, ticker, period, start, end, tz, win, exc >>
    /\ UNCHANGED others

\* lines 336-342: s, e = _weekend_safe_range(period, start, end)
Range ==
    /\ pc = "range"
    /\ IF RangeRaises(period, start, end)
       THEN /\ exc' = "ValueError" /\ pc' = "raised"
            /\ UNCHANGED win
       ELSE /\ win' = _weekend_safe_range(period, start, end, tz, today)
            /\ pc' = "primary"
            /\ UNCHANGED exc
    /\ UNCHANGED << today, hasPdr, ticker, period, start, end, tz, log, raw, got, result >>
    /\ UNCHANGED << others, rec >>

\* lines 344-347: Yahoo, date-bounded
Primary ==
    /\ pc = "primary"
    /\ \E r \in Offered("primary", YahooResponses) :
         LET df == _yahoo_download(r)
         IN  Query("primary", ticker, NoPeriod, win[1], win[2], r, df,
                   r.kind # "frame", PrimaryReturns(df), "secondary", result)
    /\ UNCHANGED << today, hasPdr, ticker, period, start, end, tz, win, exc >>
    /\ UNCHANGED others

\* lines 349-352: Stooq via pandas-datareader
Secondary ==
    /\ pc = "secondary"
    /\ IF StooqPdrSkipped(ticker, hasPdr)
       THEN /\ pc' = "tertiary"
            /\ UNCHANGED << log, raw, got, result, rec >>
       ELSE \E r \in Offered("secondary", PdrResponses) :
              LET df == _stooq_download(r)
              IN  Query("secondary", StooqPdrSymbol(ticker), NoPeriod, win[1], win[2], r, df,
                        r.kind # "frame", SecondaryReturns(df), "tertiary", result)
    /\ UNCHANGED << today, hasPdr, ticker, period, start, end, tz, win, exc >>
    /\ UNCHANGED others

\* lines 354-357: Stooq direct CSV
Tertiary ==
    /\ pc = "tertiary"
    /\ IF StooqCsvSkipped(ticker)
       THEN /\ pc' = "proxy"
            /\ UNCHANGED << log, raw, got, result, rec >>
       ELSE \E r \in Offered("tertiary", CsvResponses) :
              LET df == _stooq_csv_download(r, win)
              IN  Query("tertiary", StooqCsvSymbol(ticker), NoPeriod, win[1], win[2], r, df,
                        r.kind # "frame" \/ (~IsEmpty(r.df) /\ CsvRaises(r.df, win)),
                        TertiaryReturns(df), "proxy", result)
    /\ UNCHANGED << today, hasPdr, ticker, period, start, end, tz, win, exc >>
    /\ UNCHANGED others

\* lines 359-369: the index proxy via Yahoo, else FetchResult(empty, "empty")
Proxy ==
    /\ pc = "proxy"
    /\ IF HasProxy(ticker)
       THEN \E r \in Offered("proxy", YahooResponses) :
              LET df == _yahoo_download(r)
              IN  Query("proxy", proxy_map(ticker), NoPeriod, win[1], win[2], r, df,
                        r.kind # "frame", ProxyReturns(df), "done", EmptyResult)
       ELSE /\ result' = EmptyResult
            /\ pc' = "done"
            /\ UNCHANGED << log, raw, got, rec >>
    /\ UNCHANGED << today, hasPdr, ticker, period, start, end, tz, win, exc >>
    /\ UNCHANGED others

\* the caller has the FetchResult (or the exception); the next call starts
\* from nothing: download_price_data keeps no state of its own
Return ==
    /\ pc \in {"done", "raised"}
    /\ pc' = "idle"
    /\ ticker' = "" /\ period' = NoPeriod /\ start' = NoDate /\ end' = NoDate
    /\ tz' = NoTz
    /\ win' = NoWindow
    /\ log' = << >>
    /\ raw' = EmptyFrame /\ got' = EmptyFrame
    /\ result' = NoResult
    /\ exc' = ""
    /\ rec' = CASE rec.phase = "first" ->
                    [rec EXCEPT !.phase = "between", !.log = log,
                                !.result = result, !.exc = exc]
               [] rec.phase = "second" -> Armed
               [] OTHER -> rec
    /\ UNCHANGED << today, hasPdr >>
    /\ UNCHANGED others

Next ==
    \/ \E d \in Days : set_asof(d)
    \/ \E t \in Tickers, a \in CallArgs : Call(t, a)
    \/ Lookback
    \/ Range
    \/ Primary
    \/ Secondary
    \/ Tertiary
    \/ Proxy
    \/ Return

Spec == Init /\ [][Next]_vars

\* the same steps, with a call recorded and repeated
InitPair == Boot /\ csv = NoFiles /\ rec = Armed /\ last = Unwatched

SpecPair == InitPair /\ [][Next]_vars

\* ------------------------------------------------- tickers.json, the steps
\* somebody writes, replaces or deletes one of the two tickers.json files; the
\* next run of the script is a new process
EditTickers(i, f) ==
    /\ tickersJson' = [tickersJson EXCEPT ![i] = f]
    /\ benchmarks' = NotLoaded
    /\ UNCHANGED << callVars, today, hasPdr, rec, run, paths, ledger, csv, trade_log, last >>

\* line 859: benchmarks = load_benchmarks()
LoadBenchmarks ==
    /\ benchmarks' = load_benchmarks(tickersJson)
    /\ UNCHANGED << callVars, today, hasPdr, tickersJson, rec, run, paths, ledger, csv, trade_log, last >>

InitConfig == Init /\ today = FirstDay /\ hasPdr

NextConfig ==
    \/ \E f \in JsonFiles : EditTickers(1, f)
    \/ \E f \in ParentFiles : EditTickers(2, f)
    \/ LoadBenchmarks

SpecConfig == InitConfig /\ [][NextConfig]_vars

\* ------------------------------------------------------ the ledger, the steps
\* what the user types at the prompts
TypedTickers == {"aapl", "MSFT"}
TypedShares == {Q(1, 2), Q(3, 2)}
TypedSold == {Q(1, 1), Q(3, 2)}
TypedStops == {Zero, Q(135, 1)}
TypedBuyLimits == {Q(135, 1), Q(150, 1)}
TypedSellLimits == {Q(150, 1), Q(165, 1)}
TypedCash == {Q(375, 1)}

\* today_iso / check_weekend()
today_iso == last_trading_date(today)

\* the process ends with the exception, or goes on
Goes(L) == IF L.crash = "" THEN "trades" ELSE "off"

\* what a step leaves for the next one: the console is output only
Kept(L) == [L EXCEPT !.console = << "", "" >>]

\* the note of a step, if somebody is watching
Noted(step) == IF last = Unwatched THEN last ELSE step

\* the trades logged so far, in all the trade logs
RECURSIVE Trades(_)
Trades(files) ==
    IF files = {} THEN 0
    ELSE LET f == CHOOSE x \in files : TRUE
         IN  Len(trade_log[f]) + Trades(files \ {f})

\* the stop-loss sales in a trade log
RECURSIVE Stops(_)
Stops(rows) ==
    IF rows = << >> THEN 0
    ELSE (IF Head(rows).Reason = "AUTOMATED SELL - STOPLOSS TRIGGERED" THEN 1 ELSE 0)
         + Stops(Tail(rows))

\* the stop-loss sales logged so far, in all the trade logs
RECURSIVE StopsIn(_)
StopsIn(files) ==
    IF files = {} THEN 0
    ELSE LET f == CHOOSE x \in files : TRUE
         IN  Stops(trade_log[f]) + StopsIn(files \ {f})

\* main(file, data_dir) of a new process: load_latest_portfolio_state(file),
\* set_data_dir(data_dir) if one is given, then process_portfolio begins.
\* Where file does not exist pd.read_csv raises FileNotFoundError and no run
\* begins (the command line does not call main then, it prints that no
\* portfolio CSV was found: no run either).
Load(input, file, data_dir) ==
    /\ run = "off"
    /\ LET s == load_latest_portfolio_state(csv[file], input)
           g == IF s.crash = "" /\ data_dir # NoDir THEN set_data_dir(data_dir) ELSE ModulePaths
       IN  /\ paths' = g
           /\ ledger' = [Ledger(s.portfolio, s.cash, trade_log[g.TRADE_LOG_CSV])
                           EXCEPT !.crash = s.crash]
           /\ run' = IF s.crash = "" THEN "trades" ELSE "off"
    /\ last' = Noted(Step("load", "", Zero, input, Zero, "", << >>, << "", "" >>))
    /\ UNCHANGED << callVars, today, hasPdr, tickersJson, benchmarks, rec, csv, trade_log >>

\* the trade loop: 'b', 'm'
TradeMOO(typed, shares, stop_loss, fetch) ==
    /\ run = "trades"
    /\ Trades(TradeLogFiles) < MaxTrades
    /\ LET L == MooBuy(ledger, today_iso, Upper(Strip(typed)), shares, stop_loss, fetch)
       IN  /\ ledger' = Kept(L)
           /\ trade_log' = [trade_log EXCEPT ![paths.TRADE_LOG_CSV] = L.tradeLog]
           /\ last' = Noted(Step("moo", Upper(Strip(typed)), shares, Zero, stop_loss, "",
                                 << fetch >>, L.console))
    /\ run' = Goes(ledger')
    /\ UNCHANGED << callVars, today, hasPdr, tickersJson, benchmarks, rec, paths, csv >>

\* the trade loop: 'b', 'l'
TradeLimitBuy(typed, shares, buy_price, stop_loss, check, fetch) ==
    /\ run = "trades"
    /\ Trades(TradeLogFiles) < MaxTrades
    /\ LET L == log_manual_buy(ledger, today_iso, buy_price, shares, Upper(Strip(typed)),
                               stop_loss, check, fetch)
       IN  /\ ledger' = Kept(L)
           /\ trade_log' = [trade_log EXCEPT ![paths.TRADE_LOG_CSV] = L.tradeLog]
           /\ last' = Noted(Step("buy", Upper(Strip(typed)), shares, buy_price, stop_loss,
                                 check, << fetch >>, L.console))
    /\ run' = Goes(ledger')
    /\ UNCHANGED << callVars, today, hasPdr, tickersJson, benchmarks, rec, paths, csv >>

\* the trade loop: 's'
TradeLimitSell(typed, shares, sell_price, reason, fetch) ==
    /\ run = "trades"
    /\ Trades(TradeLogFiles) < MaxTrades
    /\ LET L == log_manual_sell(ledger, today_iso, sell_price, shares, Upper(Strip(typed)),
                                reason, fetch)
       IN  /\ ledger' = Kept(L)
           /\ trade_log' = [trade_log EXCEPT ![paths.TRADE_LOG_CSV] = L.tradeLog]
           /\ last' = Noted(Step("sell", Upper(Strip(typed)), shares, sell_price, Zero,
                                 reason, << fetch >>, L.console))
    /\ run' = Goes(ledger')
    /\ UNCHANGED << callVars, today, hasPdr, tickersJson, benchmarks, rec, paths, csv >>

\* the trade loop is left: pricing, stop losses, the CSV is written (the
\* runs followed are those that log no more than MaxStops stop-loss sales)
PriceAndSave(fetches) ==
    /\ run = "trades"
    /\ LET r == Priced(ledger, csv[paths.PORTFOLIO_CSV], today_iso, fetches)
       IN  /\ StopsIn(TradeLogFiles) + Stops(r.L.tradeLog) - Stops(ledger.tradeLog) <= MaxStops
           /\ ledger' = Kept(r.L)
           /\ csv' = [csv EXCEPT ![paths.PORTFOLIO_CSV] = r.csv]
           /\ trade_log' = [trade_log EXCEPT ![paths.TRADE_LOG_CSV] = r.L.tradeLog]
           /\ last' = Noted(Step("price", "", Zero, Zero, Zero, "", fetches, r.L.console))
    /\ run' = "off"
    /\ UNCHANGED << callVars, today, hasPdr, tickersJson, benchmarks, rec, paths >>

\* ---------------------------------------------------- floats of the ledger
RECURSIVE IsPow2(_)
IsPow2(d) == d = 1 \/ (d > 1 /\ d % 2 = 0 /\ IsPow2(d \div 2))

\* a binary fraction of at most 53 bits: a value a float holds exactly
IsFloat(a) == a = Blank \/ IsPow2(a.d)

\* Every number the ledger holds or has written is a float exactly: each
\* came out of one float operation on such numbers (or out of round), so
\* each operation was exact and the rational value is the float of the
\* script.  The average price new_cost / new_shares of a merged buy is a
\* binary fraction because the buy prices are whole multiples of 15 and a
\* merged row holds 1, 2, 2.5 or 3 shares (the cash typed and the bounds
\* above buy no more).  No action is guarded by this predicate: it is an
\* invariant of every specification of the ledger below.
ExactFloats ==
    /\ IsFloat(ledger.cash)
    /\ \A i \in 1..Len(ledger.portfolio.rows) :
         LET r == ledger.portfolio.rows[i]
         IN  IsFloat(r.shares) /\ IsFloat(r.stop_loss) /\ IsFloat(r.buy_price)
             /\ IsFloat(r.cost_basis)
    /\ \A f \in TradeLogFiles : \A i \in 1..Len(trade_log[f]) :
         LET r == trade_log[f][i]
         IN  IsFloat(r.Shares_Bought) /\ IsFloat(r.Buy_Price) /\ IsFloat(r.Cost_Basis)
             /\ IsFloat(r.PnL) /\ IsFloat(r.Shares_Sold) /\ IsFloat(r.Sell_Price)
    /\ \A f \in PortfolioFiles : \A i \in 1..Len(csv[f].rows) :
         LET r == csv[f].rows[i]
         IN  IsFloat(r.Shares) /\ IsFloat(r.Buy_Price) /\ IsFloat(r.Cost_Basis)
             /\ IsFloat(r.Stop_Loss) /\ IsFloat(r.Current_Price) /\ IsFloat(r.Total_Value)
             /\ IsFloat(r.PnL) /\ IsFloat(r.Cash_Balance) /\ IsFloat(r.Total_Equity)

\* the trade log the ledger carries is the file of the running process
TradeLogInStep == ledger.tradeLog = trade_log[paths.TRADE_LOG_CSV]

\* the days on which the script is run
RunDays == FirstDay .. (FirstDay + MaxRunDays - 1)

\* before the first run: the CSV alongside the script is there with its
\* header line, or no CSV is there at all (then no run ever begins)
InitLedger ==
    Boot /\ csv \in {NoFiles, Created} /\ rec = NoRec /\ last = Unwatched
         /\ today = FirstDay /\ hasPdr

\* what Yahoo may answer in the runs of SpecLedger
Quotes(d) ==
    { FetchResult(BarFrame(<< Steady >>, d), "yahoo"),
      FetchResult(BarFrame(<< Slump >>, d), "yahoo") }

\* the script run any number of times a day, on either portfolio CSV, with
\* and without --data-dir: one ticker bought at the open with and without a
\* stop, sold by limit order or by the stop
NextLedger ==
    \/ \E d \in RunDays : d > today /\ run = "off" /\ set_asof(d)
    \/ \E input \in TypedCash, file \in PortfolioFiles, dir \in {NoDir, "data"} :
         Load(input, file, dir)
    \/ \E st \in TypedStops, f \in Quotes(today_iso) :
         TradeMOO("aapl", Q(3, 2), st, f)
    \/ \E f \in Quotes(today_iso) :
         TradeLimitSell("aapl", Q(1, 1), Q(150, 1), "", f)
    \/ \E fs \in [1..Len(ledger.portfolio.rows) -> Quotes(today_iso)] : PriceAndSave(fs)

SpecLedger == InitLedger /\ [][NextLedger]_vars

\* the ledger with somebody watching, run any number of times on one day on
\* the CSV alongside the script without --data-dir (as in every specification
\* below), for one ticker, one order size and one limit, every order confirmed
InitSource ==
    Boot /\ csv \in {NoFiles, Created} /\ rec = NoRec /\ last = NoStep
         /\ today = FirstDay /\ hasPdr

NextSource ==
    \/ \E input \in TypedCash : Load(input, ModulePaths.PORTFOLIO_CSV, NoDir)
    \/ \E st \in TypedStops, f \in Fetches(today_iso) :
         TradeMOO("aapl", Q(1, 1), st, f)
    \/ \E f \in Fetches(today_iso) :
         TradeLimitBuy("aapl", Q(1, 1), Q(150, 1), Q(135, 1), "", f)
    \/ \E f \in Fetches(today_iso) :
         TradeLimitSell("aapl", Q(1, 1), Q(150, 1), "", f)
    \/ \E fs \in [1..Len(ledger.portfolio.rows) -> Fetches(today_iso)] : PriceAndSave(fs)

SpecSource == InitSource /\ [][NextSource]_vars

\* the ledger with somebody watching: fractional order sizes, whole and
\* fractional sell sizes, with and without a stop, one limit
NextTrades ==
    \/ \E d \in RunDays : d > today /\ run = "off" /\ set_asof(d)
    \/ \E input \in TypedCash : Load(input, ModulePaths.PORTFOLIO_CSV, NoDir)
    \/ \E sh \in TypedShares, st \in TypedStops, f \in Fetches(today_iso) :
         TradeMOO("aapl", sh, st, f)
    \/ \E sh \in TypedShares, st \in TypedStops, f \in Fetches(today_iso) :
         TradeLimitBuy("aapl", sh, Q(150, 1), st, "", f)
    \/ \E sh \in TypedSold, f \in Fetches(today_iso) :
         TradeLimitSell("aapl", sh, Q(150, 1), "", f)
    \/ \E fs \in [1..Len(ledger.portfolio.rows) -> Fetches(today_iso)] : PriceAndSave(fs)

SpecTrades == InitSource /\ [][NextTrades]_vars

\* limit orders only, watched: one share of one ticker without a stop, every
\* limit the user may type
NextLimits ==
    \/ \E d \in RunDays : d > today /\ run = "off" /\ set_asof(d)
    \/ \E input \in TypedCash : Load(input, ModulePaths.PORTFOLIO_CSV, NoDir)
    \/ \E b \in TypedBuyLimits, f \in Fetches(today_iso) :
         TradeLimitBuy("aapl", Q(1, 1), b, Zero, "", f)
    \/ \E p \in TypedSellLimits, f \in Fetches(today_iso) :
         TradeLimitSell("aapl", Q(1, 1), p, "", f)
    \/ \E fs \in [1..Len(ledger.portfolio.rows) -> Fetches(today_iso)] : PriceAndSave(fs)

SpecLimits == InitSource /\ [][NextLimits]_vars

\* every way the cash moves, watched, in the runs of one day: one ticker
\* bought with a stop in two fractional sizes, sold by limit order or by the
\* stop
NextCash ==
    \/ \E input \in TypedCash : Load(input, ModulePaths.PORTFOLIO_CSV, NoDir)
    \/ \E sh \in TypedShares, f \in Fetches(today_iso) :
         TradeMOO("aapl", sh, Q(135, 1), f)
    \/ \E sh \in TypedShares, f \in Fetches(today_iso) :
         TradeLimitBuy("aapl", sh, Q(150, 1), Q(135, 1), "", f)
    \/ \E f \in Fetches(today_iso) :
         TradeLimitSell("aapl", Q(1, 1), Q(150, 1), "", f)
    \/ \E fs \in [1..Len(ledger.portfolio.rows) -> Fetches(today_iso)] : PriceAndSave(fs)

SpecCash == InitSource /\ [][NextCash]_vars

\* one run of the trade loop with buys only, watched
NextBuys ==
    \/ \E input \in TypedCash : Load(input, ModulePaths.PORTFOLIO_CSV, NoDir)
    \/ \E t \in TypedTickers, sh \in TypedShares, st \in TypedStops, f \in Fetches(today_iso) :
         TradeMOO(t, sh, st, f)
    \/ \E t \in TypedTickers, sh \in TypedShares, st \in TypedStops, f \in Fetches(today_iso) :
         TradeLimitBuy(t, sh, Q(150, 1), st, "", f)

SpecBuys == InitSource /\ [][NextBuys]_vars

\* ------------------------------------------------------- claim vocabulary
Last(q) == q[Len(q)]

\* the position of a stage in the chain
Rank(stage) ==
    CASE stage = "lookback" -> 0 [] stage = "primary" -> 1 [] stage = "secondary" -> 2
      [] stage = "tertiary" -> 3 [] stage = "proxy" -> 4

\* the stage has been queried in the running call (with that outcome)
Queried(stage) == \E i \in 1..Len(log) : log[i].stage = stage

QueriedWith(stage, outcomes) ==
    \E i \in 1..Len(log) : log[i].stage = stage /\ log[i].outcome \in outcomes

NoRows == {"empty", "error"}

\* the caller passed an explicit window and no period
ExplicitWindow == period = NoPeriod /\ (start # NoDate \/ end # NoDate)

\* the caller passed a period and no window
PeriodOnly == IsStr(period) /\ start = NoDate /\ end = NoDate

\* out is the normalisation of the frame `given` as the spec describes it:
\* the six columns in order, the rows of `given` in their order, the cells
\* `given` has kept, a missing adjusted close equal to close, any other
\* missing cell NaN
NormalizedFrom(out, given) ==
    /\ out.cols = COLS
    /\ Len(out.rows) = Len(given.rows)
    /\ \A i \in 1..Len(out.rows) :
         /\ out.rows[i].date = given.rows[i].date
         /\ \A c \in SeqSet(COLS) :
              out.rows[i].v[c] =
                 IF InSeq(c, given.cols) THEN given.rows[i].v[c]
                 ELSE IF c = "Adj Close" THEN out.rows[i].v["Close"]
                 ELSE NaN

\* ------------------------------------------------------------------ claims

\* C1: for a ticker that is not on the Stooq blocklist and an explicit
\* window, once the date-bounded Yahoo query has returned a non-empty frame
\* the call has returned source "yahoo" with the normalised Yahoo rows, and
\* no Stooq or proxy query has been made.
C1_PrimaryWins ==
    (/\ ticker \notin STOOQ_BLOCKLIST
     /\ ExplicitWindow
     /\ QueriedWith("primary", {"rows"}))
    => /\ pc = "done"
       /\ exc = ""
       /\ result.source = "yahoo"
       /\ Len(raw.rows) > 0
       /\ NormalizedFrom(result.df, raw)
       /\ ~Queried("secondary") /\ ~Queried("tertiary") /\ ~Queried("proxy")

C1_Witness ==
    /\ pc = "done"
    /\ ticker = "AAPL" /\ ExplicitWindow
    /\ QueriedWith("primary", {"rows"})
    /\ result.source = "yahoo"
    /\ Len(result.df.rows) = 2
    /\ ~InSeq("Adj Close", raw.cols)

\* where a call goes after a stage that produced no rows
FallThrough(stage) ==
    CASE stage = "lookback" -> "range" [] stage = "primary" -> "secondary"
      [] stage = "secondary" -> "tertiary" [] stage = "tertiary" -> "proxy"
      [] stage = "proxy" -> "done"

\* the source tag the chain documents for each stage
DocumentedSource(stage) ==
    CASE stage = "lookback" -> "yahoo" [] stage = "primary" -> "yahoo"
      [] stage = "secondary" -> "stooq-pdr" [] stage = "tertiary" -> "stooq-csv"
      [] stage = "proxy" -> "yahoo:IWM-proxy"

C2_Step ==
    (log' # << >> /\ log' # log) =>
        LET q == Last(log')
        IN  /\ log' = Append(log, q)
            /\ \A i \in 1..Len(log) :
                 log[i].outcome \in NoRows /\ Rank(log[i].stage) < Rank(q.stage)
            /\ q.outcome = "rows" =>
                 pc' = "done" /\ result'.source = DocumentedSource(q.stage)
            /\ q.outcome \in NoRows =>
                 /\ pc' = FallThrough(q.stage)
                 /\ result' = IF q.stage = "proxy" THEN EmptyResult ELSE result

\* C2: every provider query is made one at a time and in the order primary
\* (lookback, then date-bounded), secondary, tertiary, proxy; it is made only
\* when every earlier query of the call ended without rows; a query that
\* ended with a caught error continues exactly like one that ended empty
\* (to the next stage, with no result yet); a query with rows ends the call
\* with that stage's source.
C2_OrderedFallback == [][C2_Step]_vars

C2_Witness ==
    /\ pc = "done"
    /\ period = PeriodNone
    /\ Len(log) = 4
    /\ log[1].stage = "lookback" /\ log[1].outcome = "empty"
    /\ log[2].stage = "primary" /\ log[2].outcome = "error"
    /\ log[3].stage = "secondary" /\ log[3].outcome = "error"
    /\ log[4].stage = "tertiary" /\ log[4].outcome = "rows"
    /\ result.source = "stooq-csv"

\* C3: download_price_data never raises, whatever the ticker, the window or
\* period string and the stage outcomes.
C3_NeverRaises == pc # "raised" /\ exc = ""

\* C4: for a ticker without a registered proxy, when the date-bounded chain
\* has run and every query of the call ended empty or with an error, the
\* call ends without exception, with source "empty" and zero rows.
C4_AllEmpty ==
    (/\ pc \in {"done", "raised"}
     /\ ticker \notin PROXY_MAP_KEYS
     /\ QueriedWith("primary", NoRows)
     /\ \A i \in 1..Len(log) : log[i].outcome \in NoRows)
    => /\ pc = "done"
       /\ exc = ""
       /\ result.source = "empty"
       /\ Len(result.df.rows) = 0
       /\ result.df.cols = COLS

C4_Witness ==
    /\ pc = "done"
    /\ ticker = "^GSPC"
    /\ Len(log) = 4
    /\ \A i \in 1..Len(log) : log[i].outcome \in NoRows
    /\ QueriedWith("lookback", {"empty"}) /\ QueriedWith("tertiary", {"error"})
    /\ result.source = "empty"

\* C5: when the Yahoo query ended without rows and the pandas-datareader
\* Stooq query returned rows, the call returns source "stooq-pdr" with the
\* normalised Stooq rows; the adjusted close, which Stooq does not supply, is
\* equal to the close in every row.
C5_SecondaryNormalized ==
    (QueriedWith("primary", NoRows) /\ QueriedWith("secondary", {"rows"}))
    => /\ pc = "done"
       /\ result.source = "stooq-pdr"
       /\ NormalizedFrom(result.df, got)
       /\ \A i \in 1..Len(result.df.rows) :
            /\ ~InSeq("Adj Close", raw.cols)
               => result.df.rows[i].v["Adj Close"] = result.df.rows[i].v["Close"]
            /\ \E k \in 1..Len(raw.rows) :
                 /\ raw.rows[k].date = result.df.rows[i].date
                 /\ raw.rows[k].v["Close"] = result.df.rows[i].v["Close"]

C5_Witness ==
    /\ pc = "done"
    /\ QueriedWith("primary", {"empty"}) /\ QueriedWith("secondary", {"rows"})
    /\ result.source = "stooq-pdr"
    /\ ~InSeq("Adj Close", raw.cols)
    /\ Len(result.df.rows) = 2
    /\ result.df.rows[1].v["Adj Close"] = result.df.rows[1].v["Close"]
    /\ result.df.rows[1].v["Close"] # NaN

\* C6: for a ticker on the Stooq blocklist neither Stooq provider is ever
\* queried, whatever the Yahoo query returned; when the Yahoo query ended
\* without rows and the ticker has a registered proxy, the call does not end
\* before the proxy has been queried.
C6_Blocklist ==
    ticker \in {"^RUT"}
    => /\ ~Queried("secondary") /\ ~Queried("tertiary")
       /\ (/\ pc \in {"done", "raised"}
           /\ QueriedWith("primary", NoRows))
          => /\ Queried("proxy")
             /\ Last(log).stage = "proxy" /\ Last(log).symbol = "IWM"

C6_Witness ==
    /\ pc = "done"
    /\ ticker = "^RUT" /\ hasPdr
    /\ Len(log) = 2
    /\ log[1].stage = "primary" /\ log[1].outcome = "empty"
    /\ log[2].stage = "proxy" /\ log[2].symbol = "IWM"

\* C7: when stages 1-3 have yielded no rows and the ticker has a registered
\* proxy, Yahoo is queried with the proxy symbol over the window of stage 1;
\* rows obtained this way are returned under a source that is none of the
\* sources of the requested ticker's own data and that names the proxy, and
\* a result under one of those sources never holds proxy rows.
C7_ProxyTagged ==
    /\ (/\ pc \in {"done", "raised"}
        /\ ticker = "^RUT"
        /\ QueriedWith("primary", NoRows)
        /\ ~QueriedWith("secondary", {"rows"}) /\ ~QueriedWith("tertiary", {"rows"}))
       => \E i, j \in 1..Len(log) :
            /\ log[i].stage = "primary" /\ log[j].stage = "proxy"
            /\ log[j].symbol = "IWM" /\ log[j].period = NoPeriod
            /\ log[j].start = log[i].start /\ log[j].end = log[i].end
    /\ (log # << >> /\ Last(log).stage = "proxy" /\ Last(log).outcome = "rows")
       => /\ pc = "done"
          /\ result.source = "yahoo:IWM-proxy"
          /\ result.source \notin {"yahoo", "stooq-pdr", "stooq-csv", "empty"}
    /\ (pc = "done" /\ result.source \in {"yahoo", "stooq-pdr", "stooq-csv"})
       => Last(log).stage # "proxy" /\ Last(log).symbol # "IWM"

C7_Witness ==
    /\ pc = "done"
    /\ ticker = "^RUT"
    /\ Queried("lookback") /\ QueriedWith("primary", NoRows)
    /\ Last(log).stage = "proxy" /\ Last(log).outcome = "rows"
    /\ result.source = "yahoo:IWM-proxy"
    /\ Len(result.df.rows) > 0

\* C8: for both index tickers of the docstring, ^GSPC (proxy SPY) and ^RUT
\* (proxy IWM), a call that ends with source "empty" after the three
\* providers yielded no rows has queried Yahoo with the proxy symbol.
C8_DocumentedProxies ==
    (/\ pc = "done"
     /\ ticker \in {"^GSPC", "^RUT"}
     /\ result.source = "empty")
    => \E i \in 1..Len(log) :
         log[i].stage = "proxy" /\ log[i].symbol = DocProxy(ticker)

\* the number of days a period reaches back from the last trading day
LookbackDays(p) ==
    CASE p = P1d -> 1 [] p = P5d -> 5 [] p = P1mo -> 1

\* C9: when the caller passes a period and no window, the first query is
\* Yahoo with that period; if it returns rows the result is "yahoo" and it is
\* the only query; every other query of the call is made after the lookback
\* ended without rows, in chain order, on the explicit window that ends the
\* day after the last trading day.
C9_LookbackFirst ==
    PeriodOnly =>
       /\ log # << >> =>
            /\ log[1].stage = "lookback" /\ log[1].symbol = ticker
            /\ log[1].period = period /\ log[1].start = NoDate /\ log[1].end = NoDate
       /\ pc \in {"range", "primary", "secondary", "tertiary", "proxy", "raised"}
            => QueriedWith("lookback", NoRows)
       /\ QueriedWith("lookback", {"rows"})
            => pc = "done" /\ result.source = "yahoo" /\ Len(log) = 1
                 /\ NormalizedFrom(result.df, raw)
       /\ \A i \in 2..Len(log) :
            /\ log[1].outcome \in NoRows
            /\ log[2].stage = "primary"
            /\ Rank(log[i].stage) > Rank(log[i-1].stage)
            /\ log[i].period = NoPeriod
            /\ log[i].end = last_trading_date(today) + 1
            /\ log[i].start = last_trading_date(today) - LookbackDays(period)
            /\ Weekday(log[i].end - 1) \notin {5, 6}

C9_Witness ==
    /\ pc = "done"
    /\ period = P5d /\ PeriodOnly
    /\ Weekday(today) = 6
    /\ Len(log) = 4
    /\ log[1].stage = "lookback" /\ log[1].outcome = "empty"
    /\ log[3].stage = "secondary" /\ log[3].outcome = "empty"
    /\ log[4].stage = "tertiary" /\ log[4].outcome = "error"
    /\ log[4].start = today - 7 /\ log[4].end = today - 1
    /\ result.source = "empty"

\* the dates of the rows are strictly ascending: sorted, no date twice
StrictlyAscending(rows) ==
    \A i \in 1..(Len(rows) - 1) : rows[i].date < rows[i + 1].date

\* C10: every FetchResult with a source other than "empty" has its rows in
\* ascending date order without duplicate dates and has the six columns, in
\* whatever order the provider returned the rows; with source "empty" there
\* are no rows.
C10_SortedUnique ==
    pc = "done" =>
       IF result.source # "empty"
       THEN /\ result.df.cols = COLS
            /\ Len(result.df.rows) > 0
            /\ StrictlyAscending(result.df.rows)
       ELSE Len(result.df.rows) = 0

\* C11: normalising a normalised frame changes nothing: for every frame a
\* stage hands back, _normalize_ohlcv applied twice gives the same columns,
\* column order and rows as applied once, and the returned frame is a fixed
\* point of _normalize_ohlcv.
C11_NormalizeIdempotent ==
    pc = "done" =>
       LET once == _normalize_ohlcv(got)
       IN  /\ _normalize_ohlcv(once).cols = once.cols
           /\ _normalize_ohlcv(once).rows = once.rows
           /\ _normalize_ohlcv(result.df) = result.df

C11_Witness ==
    /\ pc = "done"
    /\ Len(got.rows) = 2 /\ got.rows[1].date # got.rows[2].date
    /\ got.cols = << "Open", "High" >>
    /\ _normalize_ohlcv(got) # got
    /\ result.df.cols = COLS

\* the provider of the query answered within the window it was given, read
\* by its own convention
ProviderKeptWindow(q, answer) ==
    \A i \in 1..Len(answer.rows) :
       CASE ProviderConvention(q.stage) = "exclusive" ->
              q.start <= answer.rows[i].date /\ answer.rows[i].date < q.end
         [] ProviderConvention(q.stage) = "inclusive" ->
              q.start <= answer.rows[i].date /\ answer.rows[i].date <= q.end
         [] OTHER -> TRUE

\* C12: every stage hands its provider the window [s, e) in the provider's
\* convention (e unchanged for an exclusive end, e minus one day for an
\* inclusive end), so that, providers answering within the window they were
\* given, no returned row is dated before s or on or after e.
C12_WindowTranslated ==
    /\ \A i \in 1..Len(log) :
         log[i].stage \in {"primary", "secondary", "tertiary", "proxy"} =>
            /\ log[i].start = win[1]
            /\ log[i].end = IF ProviderConvention(log[i].stage) = "inclusive"
                            THEN win[2] - 1 ELSE win[2]
    /\ (/\ pc = "done"
        /\ result.source \notin {"empty", "none"}
        /\ Last(log).stage # "lookback"
        /\ ProviderKeptWindow(Last(log), raw))
       => \A i \in 1..Len(result.df.rows) :
            win[1] <= result.df.rows[i].date /\ result.df.rows[i].date < win[2]

\* the window of the running call has been computed from the period alone
WindowFromPeriod ==
    /\ start = NoDate /\ end = NoDate
    /\ win # NoWindow

\* C13: last_trading_date maps a Saturday to the Friday before it, a Sunday
\* to the Friday two days before it and a Monday-Friday to itself, and never
\* yields a Saturday or a Sunday; the window a call derives from it ends the
\* day after that date.
C13_LastTradingDate ==
    LET d == last_trading_date(today)
    IN  /\ d % 7 \notin {5, 6}
        /\ today % 7 = 5 => d = today - 1
        /\ today % 7 = 6 => d = today - 2
        /\ today % 7 \in 0..4 => d = today
        /\ WindowFromPeriod => win[2] = d + 1 /\ (win[2] - 1) % 7 \in 0..4

C13_Witness ==
    /\ WindowFromPeriod
    /\ today % 7 = 6
    /\ win[2] - 1 = today - 2
    /\ pc = "done"

\* the ticker a provider spelling stands for: Stooq symbols are matched
\* without regard to letter case, US listings carry the suffix .us
Canonical(symbol) ==
    CASE symbol = "aapl"    -> "AAPL"
      [] symbol = "aapl.us" -> "AAPL"
      [] symbol = "^gspc"   -> "^GSPC"
      [] symbol = "^spx"    -> "^SPX"
      [] symbol = "^rut"    -> "^RUT"
      [] OTHER              -> symbol

\* the Stooq name of a ticker of the model
RegisteredAlias(t) == IF t = "^GSPC" THEN "^SPX" ELSE t

\* C15: the pandas-datareader query and the CSV query ask for the Stooq
\* alias of the ticker when one is registered (^GSPC as ^SPX) and for the
\* ticker otherwise, in the provider's spelling, both from the same alias
\* table and neither for a blocklisted ticker; the Yahoo queries of stage 1
\* carry the ticker exactly as passed.
C15_Aliases ==
    \A i \in 1..Len(log) :
       /\ log[i].stage \in {"lookback", "primary"} => log[i].symbol = ticker
       /\ log[i].stage \in {"secondary", "tertiary"} =>
            /\ Canonical(log[i].symbol) = RegisteredAlias(ticker)
            /\ ticker # "^RUT"
            /\ \A j \in 1..Len(log) :
                 log[j].stage \in {"secondary", "tertiary"} =>
                    Canonical(log[j].symbol) = Canonical(log[i].symbol)

C15_Witness ==
    /\ ticker = "^GSPC"
    /\ \E i, j \in 1..Len(log) :
         /\ log[i].stage = "secondary" /\ log[i].symbol = "^SPX"
         /\ log[j].stage = "tertiary" /\ log[j].symbol = "^spx"
    /\ log[1].symbol = "^GSPC"

\* C17: with an explicit end, _weekend_safe_range returns the window that
\* ends the day after the supplied end (and starts at the supplied start),
\* so that the supplied end date is inside it.
C17_ExplicitEndPlusOne ==
    (end # NoDate /\ win # NoWindow)
    => /\ win[2] = end + 1
       /\ start # NoDate => win[1] = start

\* C18: with period "1d" and no dates the window is [d, d+1) for d the last
\* trading day, the window of trading_day_window(); with period "<n>d" the
\* window ends the day after the last trading day.
C18_OneDayWindow ==
    WindowFromPeriod =>
       /\ period = P1d => << win[1], win[2] >> = trading_day_window(today)
       /\ period = P5d => win[2] = last_trading_date(today) + 1

\* ------------------------------------------------------------------- C14
\* the repeated call has returned (or raised)
Repeated == rec.phase = "second" /\ pc \in {"done", "raised"}

\* the repeated call ended as the recorded one did
SameOutcome == result = rec.result /\ exc = rec.exc

\* the repeated call asked the providers what the recorded one asked them
SameQueries == log = rec.log

\* C14 as stated: a call repeated with the same ticker, the same window or
\* lookback arguments and the same provider answers returns the same
\* FetchResult, whatever set_asof did in between, and, reading no
\* module-level state, it has asked the providers the same questions.
C14_Stateless == Repeated => (SameOutcome /\ SameQueries)

\* C14 amended: given the same arguments and the same provider answers the
\* repeated call returns the same FetchResult; the windows it asks the
\* providers for are the same if an end was passed or the effective date
\* (ASOF_DATE or the clock) is the one of the first call; and a running fetch
\* does not change the effective date.
C14_StatelessGivenDate ==
    /\ Repeated => SameOutcome
    /\ (Repeated /\ (rec.args[3] # NoDate \/ today = rec.today)) => SameQueries
    /\ rec.phase = "first" => today = rec.today

\* a call with an explicit tz-naive end is repeated under another effective
\* date and both return rows from the CSV stage, the one that filters by the
\* window
C14_Witness ==
    /\ Repeated
    /\ rec.args[3] # NoDate /\ today # rec.today
    /\ result.source = "stooq-csv" /\ HasRows(result.df)
    /\ Queried("primary") /\ SameQueries

\* ------------------------------------------------------------------- C16
\* the same rows under another source tag
Retag(fetch, src) == [fetch EXCEPT !.source = src]

Retagged(fetches, srcs) == [i \in 1..Len(fetches) |-> Retag(fetches[i], srcs[i])]

\* portfolio, cash, trade log and how the process went on: all but the console
Books(L) == << L.portfolio, L.cash, L.tradeLog, L.crash >>

\* the step just taken, had every fetch it consumed carried another tag
C16_Step ==
    run = "trades" =>
      CASE last'.op = "moo" ->
             \A src \in Sources :
               /\ Books(ledger') = Books(MooBuy(ledger, today_iso, last'.ticker, last'.shares,
                                                last'.stop_loss, Retag(last'.fetches[1], src)))
               /\ csv' = csv
        [] last'.op = "buy" ->
             \A src \in Sources :
               /\ Books(ledger') = Books(log_manual_buy(ledger, today_iso, last'.price,
                                                        last'.shares, last'.ticker,
                                                        last'.stop_loss, last'.word,
                                                        Retag(last'.fetches[1], src)))
               /\ csv' = csv
        [] last'.op = "sell" ->
             \A src \in Sources :
               /\ Books(ledger') = Books(log_manual_sell(ledger, today_iso, last'.price,
                                                         last'.shares, last'.ticker, last'.word,
                                                         Retag(last'.fetches[1], src)))
               /\ csv' = csv
        [] last'.op = "price" ->
             \A srcs \in [1..Len(last'.fetches) -> Sources] :
               LET r == Priced(ledger, csv[paths.PORTFOLIO_CSV], today_iso,
                               Retagged(last'.fetches, srcs))
               IN  /\ Books(ledger') = Books(r.L)
                   /\ csv' = [csv EXCEPT ![paths.PORTFOLIO_CSV] = r.csv]

\* C16: the source tag of a FetchResult never influences what
\* process_portfolio, log_manual_buy or log_manual_sell do: with the same rows
\* under any other tag the portfolio, the cash, the trade log and the
\* portfolio CSV rows come out the same; only the printed message differs.
C16_SourceIgnored == [][C16_Step]_vars

\* a limit sell was filled on rows that came from the Stooq reader, and
\* the message printed says so
C16_Witness ==
    /\ last.op = "sell"
    /\ last.fetches[1].source = "stooq-pdr"
    /\ last.console = << "Manual SELL LIMIT filled", "stooq-pdr" >>
    /\ ledger.tradeLog # << >>

\* ------------------------------------------------------------------- C19
\* the CSV rows of one date that record a position still held
HeldOn(csvrows, date) ==
    Select(csvrows, { csvrows[i] : i \in { k \in 1..Len(csvrows) :
                                              /\ csvrows[k].Date = date
                                              /\ csvrows[k].Ticker # "TOTAL"
                                              /\ ~IsSell(csvrows[k].Action) } })

\* ticker and shares of the positions a loaded portfolio holds
Holdings(rows) == [i \in 1..Len(rows) |-> << rows[i].ticker, rows[i].shares >>]

\* ticker and shares of CSV rows
Recorded(csvrows) == [i \in 1..Len(csvrows) |-> << csvrows[i].Ticker, csvrows[i].Shares >>]

\* C19: load_latest_portfolio_state returns the most recent snapshot: the
\* cash balance of the latest TOTAL row and exactly the non-sold positions
\* recorded for that row's date, also when that date has no position rows
\* (then nothing is held, whatever was held on an earlier date).
C19_LatestSnapshot ==
    \A file \in PortfolioFiles :
      (run = "off" /\ csv[file].exists /\ csv[file].rows # << >>) =>
        LET loaded == load_latest_portfolio_state(csv[file], Zero)
            total == LatestTotal(csv[file].rows)
        IN  /\ loaded.crash = ""
            /\ loaded.cash = total.Cash_Balance
            /\ Holdings(loaded.portfolio.rows) = Recorded(HeldOn(csv[file].rows, total.Date))

\* ------------------------------------------------------------------- C20
\* the tickers.json that load_benchmarks consults: the first candidate that
\* exists and parses (to something other than null), if any
Consulted == IF tickersJson[1].kind \in {"missing", "malformed", "unreadable", "null"}
             THEN tickersJson[2] ELSE tickersJson[1]

\* the string entries of the consulted "benchmarks" array, stripped and
\* upper-cased, blanks dropped
Wanted == { Upper(Strip(Consulted.bench.items[i].s)) :
              i \in { k \in 1..Len(Consulted.bench.items) :
                        /\ Consulted.bench.items[k].str
                        /\ Upper(Strip(Consulted.bench.items[k].s)) # "" } }

\* position of the first entry of the consulted array that normalises to u
FirstAt(u) == CHOOSE i \in 1..Len(Consulted.bench.items) :
                /\ Consulted.bench.items[i].str
                /\ Upper(Strip(Consulted.bench.items[i].s)) = u
                /\ \A k \in 1..(i - 1) :
                      ~(Consulted.bench.items[k].str
                        /\ Upper(Strip(Consulted.bench.items[k].s)) = u)

\* C20: load_benchmarks never raises and never returns an empty list; it
\* returns the defaults when the consulted tickers.json is missing, malformed,
\* not a JSON object, or has no list under "benchmarks"; otherwise the string
\* entries stripped and upper-cased, each once, in first-occurrence order
\* (the defaults if none remain).
C20_Benchmarks ==
    benchmarks # NotLoaded =>
      /\ benchmarks.raised = ""
      /\ benchmarks.list # << >>
      /\ IF Consulted.kind # "object" \/ Consulted.bench.kind # "list" \/ Wanted = {}
         THEN benchmarks.list = DEFAULT_BENCHMARKS
         ELSE /\ SeqSet(benchmarks.list) = Wanted
              /\ \A i, j \in 1..Len(benchmarks.list) :
                    i < j => FirstAt(benchmarks.list[i]) < FirstAt(benchmarks.list[j])

\* ------------------------------------------------------------ C21 .. C27
\* the step just taken is the prompt branch op (a change of the date is not
\* a step of the script)
Took(op) == last'.op = op /\ today' = today

\* the trade-log rows the step wrote
Logged == SubSeq(ledger'.tradeLog, Len(ledger.tradeLog) + 1, Len(ledger'.tradeLog))

\* the step left cash, positions and trade log as they were
Untouched ==
    /\ ledger'.cash = ledger.cash
    /\ ledger'.portfolio.rows = ledger.portfolio.rows
    /\ ledger'.tradeLog = ledger.tradeLog

\* the last session of a fetch
Session(fetch) == fetch.df.rows[Len(fetch.df.rows)].v

\* the stop of a position is due in the session fetched for it
StopDue(stock, fetch) ==
    /\ ~NoData(fetch)
    /\ Less(Zero, stock.stop_loss)
    /\ Leq(Session(fetch).Low, stock.stop_loss)

\* the price a due stop executes at
StopPrice(stock, fetch) ==
    IF Leq(Session(fetch).Open, stock.stop_loss) THEN Session(fetch).Open ELSE stock.stop_loss

\* the rows the step logged as automated sales of the symbol
StopSales(sym) ==
    { k \in 1..Len(Logged) : /\ Logged[k].Ticker = Upper(sym)
                             /\ Logged[k].Reason = "AUTOMATED SELL - STOPLOSS TRIGGERED" }

\* the symbol is held after the step
HeldAfter(sym) ==
    \E k \in 1..Len(ledger'.portfolio.rows) :
        Upper(ledger'.portfolio.rows[k].ticker) = Upper(sym)

\* C21: in the pricing loop a position is sold if and only if it has a stop
\* above 0 and the session low is at or below it; it is then sold in full,
\* at the open when the open is at or below the stop and at the stop
\* otherwise, never above the stop; any other position stays as it was.
C21_Step ==
    Took("price") =>
      \A i \in 1..Len(ledger.portfolio.rows) :
         LET stock == ledger.portfolio.rows[i]
             fetch == last'.fetches[i]
         IN  IF StopDue(stock, fetch)
             THEN /\ ~HeldAfter(stock.ticker)
                  /\ \E k \in StopSales(stock.ticker) :
                        /\ Logged[k].Shares_Sold = stock.shares
                        /\ Logged[k].Sell_Price = StopPrice(stock, fetch)
                        /\ Leq(Logged[k].Sell_Price, stock.stop_loss)
             ELSE /\ StopSales(stock.ticker) = {}
                  /\ \E k \in 1..Len(ledger'.portfolio.rows) :
                        ledger'.portfolio.rows[k] = stock

C21_StopLossRule == [][C21_Step]_vars

\* C22: a market-on-open buy fills at the open of the fetched session,
\* rounded to 2 decimals, whenever there is data and the cost does not exceed
\* cash: the cost leaves the cash, the buy is logged and the position is held;
\* otherwise the order is rejected and cash, portfolio and trade log stay as
\* they were.
C22_Step ==
    Took("moo") =>
      LET fetch == last'.fetches[1]
          price == round2(Session(fetch).Open)
          cost == Mul(price, last'.shares)
      IN  IF ~NoData(fetch) /\ Leq(cost, ledger.cash)
          THEN /\ ledger'.crash = ""
               /\ ledger'.cash = Sub(ledger.cash, cost)
               /\ Len(Logged) = 1
               /\ Logged[1].Ticker = last'.ticker
               /\ Logged[1].Shares_Bought = last'.shares
               /\ Logged[1].Buy_Price = price
               /\ HeldAfter(last'.ticker)
          ELSE Untouched

C22_MarketOnOpen == [][C22_Step]_vars

\* what a trade-log row moves: the executed cost of a buy out of the cash, the
\* executed proceeds of a sale into it
Moved(row) ==
    IF row.Shares_Sold = Blank
    THEN Sub(Zero, Mul(row.Buy_Price, row.Shares_Bought))
    ELSE Mul(row.Sell_Price, row.Shares_Sold)

RECURSIVE Total(_)
Total(rows) == IF rows = << >> THEN Zero ELSE Add(Moved(Head(rows)), Total(Tail(rows)))

\* C23: the cash is never negative, and a market-on-open buy, a limit buy,
\* a limit sell or the pricing loop with its stop-loss sales changes it only
\* by the executed cost of the buy it filled (out) or the executed proceeds
\* of the sales it filled (in).
C23_Step ==
    /\ Leq(Zero, ledger'.cash)
    /\ (Took("moo") \/ Took("buy") \/ Took("sell") \/ Took("price")) =>
          (ledger'.cash # ledger.cash =>
             /\ Logged # << >>
             /\ ledger'.cash = Add(ledger.cash, Total(Logged)))

C23_Cash == [][C23_Step]_vars

\* a buy was turned down for its cost while the cash held part of an earlier
\* buy's change
C23_Witness ==
    /\ last.op \in {"moo", "buy"}
    /\ last.console[1] \in {"MOO buy failed: cost exceeds cash",
                            "Manual buy failed: cost exceeds cash balance"}
    /\ Len(ledger.tradeLog) = 1
    /\ Less(Zero, ledger.cash)
    /\ Less(ledger.cash, Q(375, 1))

\* the price is no worse for a buyer than the limit, for a seller than the limit
NotAbove(price, limit) == ~Less(limit, price)
NotBelow(price, limit) == ~Less(price, limit)

\* C24: a limit buy fills at the open if the open is at or below the limit,
\* else at the limit if the low is at or below it, so never above the limit;
\* a limit sell fills at the open if the open is at or above the limit, else
\* at the limit if the high is at or above it, so never below the limit; an
\* order whose limit the session did not reach is not filled and leaves
\* cash, portfolio and trade log as they were.
C24_Step ==
    /\ Took("buy") /\ ~NoData(last'.fetches[1]) =>
         LET bar == Session(last'.fetches[1])
             limit == last'.price
         IN  IF NotAbove(bar.Open, limit) \/ NotAbove(bar.Low, limit)
             THEN \A k \in 1..Len(Logged) :
                     /\ Logged[k].Buy_Price = IF NotAbove(bar.Open, limit) THEN bar.Open ELSE limit
                     /\ NotAbove(Logged[k].Buy_Price, limit)
             ELSE Untouched
    /\ Took("sell") /\ ~NoData(last'.fetches[1]) =>
         LET bar == Session(last'.fetches[1])
             limit == last'.price
         IN  IF NotBelow(bar.Open, limit) \/ NotBelow(bar.High, limit)
             THEN \A k \in 1..Len(Logged) :
                     /\ Logged[k].Sell_Price = IF NotBelow(bar.Open, limit) THEN bar.Open ELSE limit
                     /\ NotBelow(Logged[k].Sell_Price, limit)
             ELSE Untouched

C24_LimitNeverWorse == [][C24_Step]_vars

\* a sell has just filled at its limit, above the open, of a position that
\* was bought at its limit, below the open
C24_Witness ==
    /\ last.op = "sell"
    /\ Len(ledger.tradeLog) = 2
    /\ ledger.tradeLog[1].Buy_Price \in TypedBuyLimits
    /\ ledger.tradeLog[2].Sell_Price = last.price
    /\ Less(Session(last.fetches[1]).Open, last.price)

\* the shares of the symbol held before and after the step (0 if none)
HeldShares(rows, sym) ==
    LET own == { k \in 1..Len(rows) : Upper(rows[k].ticker) = Upper(sym) }
    IN  IF own = {} THEN Zero ELSE rows[CHOOSE k \in own : TRUE].shares

\* C25: a limit sell of a ticker not held, or of more shares than held, is
\* rejected with cash and portfolio as they were; a filled sell of s shares
\* out of n >= s leaves exactly n - s shares, the position being removed if
\* and only if s = n; a sell of exactly the held amount is never rejected
\* for its size. Holdings may be fractional.
C25_Step ==
    Took("sell") =>
      LET n == HeldShares(ledger.portfolio.rows, last'.ticker)
          sold == last'.shares
      IN  /\ Less(n, sold) => Untouched
          /\ (Leq(sold, n) /\ Logged # << >>) =>
                /\ HeldShares(ledger'.portfolio.rows, last'.ticker) = Sub(n, sold)
                /\ HeldAfter(last'.ticker) <=> sold # n
          /\ sold = n =>
                last'.console[1] # "Manual sell failed: trying to sell more shares than owned"

C25_ShareAccounting == [][C25_Step]_vars

\* no two rows of the portfolio are of the same ticker
OneRowEach(rows) ==
    \A j, k \in 1..Len(rows) : Upper(rows[j].ticker) = Upper(rows[k].ticker) => j = k

\* C26: after filled buys the portfolio has at most one row per ticker: a
\* buy of a ticker already held adds the bought shares and the bought cost
\* to that row, sets its buy_price to cost_basis / shares and replaces its
\* stop loss, the other rows staying as they were; a buy of a ticker not
\* held adds one row.
C26_Step ==
    /\ OneRowEach(ledger'.portfolio.rows)
    /\ ((Took("moo") \/ Took("buy")) /\ Logged # << >> /\ ledger'.crash = "") =>
         LET before == ledger.portfolio.rows
             after == ledger'.portfolio.rows
             own == { k \in 1..Len(before) : Upper(before[k].ticker) = Upper(last'.ticker) }
             cost == Mul(Logged[1].Buy_Price, last'.shares)
         IN  IF own = {}
             THEN /\ Len(after) = Len(before) + 1
                  /\ \A k \in 1..Len(before) : after[k] = before[k]
                  /\ after[Len(after)].shares = last'.shares
                  /\ after[Len(after)].cost_basis = cost
             ELSE /\ Len(after) = Len(before)
                  /\ \A k \in 1..Len(before) :
                        IF k \in own
                        THEN /\ after[k].shares = Add(before[k].shares, last'.shares)
                             /\ after[k].cost_basis = Add(before[k].cost_basis, cost)
                             /\ after[k].buy_price = Div(after[k].cost_basis, after[k].shares)
                             /\ after[k].stop_loss = last'.stop_loss
                        ELSE after[k] = before[k]

C26_OneRowPerTicker == [][C26_Step]_vars

\* a market-on-open buy and a limit buy of the same ticker, one of half a
\* share and one of a share and a half, have been merged into one row of two
C26_Witness ==
    /\ Len(ledger.tradeLog) = 2
    /\ ledger.tradeLog[1].Reason # ledger.tradeLog[2].Reason
    /\ ledger.tradeLog[1].Ticker = ledger.tradeLog[2].Ticker
    /\ ledger.tradeLog[1].Shares_Bought # ledger.tradeLog[2].Shares_Bought
    /\ Len(ledger.portfolio.rows) = 1
    /\ ledger.portfolio.rows[1].shares = Q(2, 1)

\* what the stop-loss sales of the step are worth at the full size of the
\* positions sold: for each position with a logged sale, the logged price
\* times the shares held
RECURSIVE FullProceeds(_, _)
FullProceeds(rows, i) ==
    IF i > Len(rows) THEN Zero
    ELSE LET sales == StopSales(rows[i].ticker)
             worth == IF sales = {} THEN Zero
                      ELSE Mul(Logged[CHOOSE k \in sales : TRUE].Sell_Price, rows[i].shares)
         IN  Add(worth, FullProceeds(rows, i + 1))

\* C27: when the stop-loss branch credits cash for a position, the credit is
\* the execution price times all the shares held, fractional ones included,
\* and the position is no longer in the portfolio returned: nothing is both
\* credited and still held.
C27_Step ==
    Took("price") =>
      /\ ledger'.cash = Add(ledger.cash, FullProceeds(ledger.portfolio.rows, 1))
      /\ \A i \in 1..Len(ledger.portfolio.rows) :
            StopSales(ledger.portfolio.rows[i].ticker) # {} =>
               ~HeldAfter(ledger.portfolio.rows[i].ticker)

C27_StopLossCredit == [][C27_Step]_vars

====
